---- MODULE Spec2Model ----
(***************************************************************************)
(* State-machine model of GenderDetectorPlugin (src/main.py): the gender   *)
(* cache with its expiry test, the per-user priority list of nicknames,    *)
(* the alias map, the cache files, and the handlers that read and write    *)
(* them.                                                                   *)
(*                                                                         *)
(* Conventions.  A Python dict is a function whose DOMAIN is the set of    *)
(* keys present.  An Optional value is a sequence of length at most one    *)
(* (<<>> is None).  A text (a nickname, an alias) is a sequence of         *)
(* one-character strings, so that len() and strip() are computed.  The     *)
(* gender strings of the source are written in ASCII: "nan" (male),        *)
(* "nv" (female), "weizhi" (unknown).                                      *)
(***************************************************************************)
EXTENDS Integers, Sequences, FiniteSets, TLC

VARIABLES
    gender_cache,         \* self.gender_cache: user_id -> [gender, nickname, update_time]
    nickname_cache,       \* self.nickname_cache: user_id -> [nicknames, selected]
    user_alias_cache,     \* self.user_alias_cache, in insertion order: <<[alias, ids]>>
    scan_history,         \* self.scan_history: Optional [groups, members]
    processed_messages,   \* self.processed_messages: set of message ids
    group_members_cache,  \* self.group_members_cache: group_id -> members
    disk,                 \* the four cache files: name -> [kind, content]
    running,              \* whether the plugin object exists (between __init__ and terminate)
    now,                  \* asyncio.get_event_loop().time(), in seconds
    boot,                 \* the wall-clock time at which the clock of the event loop read 0
    written,              \* observation: user_id -> wall-clock time its gender entry is dated
    handled,              \* observation: the message ids analyze_nicknames has worked on
    tasks,                \* the background tasks created by __init__ that are alive
    inflight,             \* the handler coroutines suspended at an await: name -> Optional frame
    out                   \* what the last operation did and returned (observation only)

vars == <<gender_cache, nickname_cache, user_alias_cache, scan_history,
          processed_messages, group_members_cache, disk, running, now, boot,
          written, handled, tasks, inflight, out>>

-----------------------------------------------------------------------------
(* Bounds of the model *)

\* the configured max_nicknames used by the model (the default of the source is 5)
max_nicknames == 2

\* how many distinct message ids are delivered
MaxMsgs == 3

\* the clock is sampled at 0 and this many seconds around the expiry time
MaxSkew == 1

-----------------------------------------------------------------------------
(* Configuration (_ensure_default_config) *)

cache_expire_days == 30

enable_nickname_learning == TRUE

enable_smart_user_detection == TRUE

\* default_nicknames: "male" xiaogege, "female" xiaojiejie, "unknown" pengyou
default_nicknames ==
    [male |-> <<"x", "g", "g">>, female |-> <<"x", "j", "j">>, unknown |-> <<"p", "y">>]

-----------------------------------------------------------------------------
(* Values *)

Users == {"u1", "u2"}

\* the qq values of an At component that mean "everyone"
AtAllIds == {"0", "all", "quanti"}

None == <<>>

Some(x) == <<x>>

Min(a, b) == IF a < b THEN a ELSE b

EmptyDict == <<>>

\* dict[key] = value
DictSet(d, k, v) == [x \in (DOMAIN d) \cup {k} |-> IF x = k THEN v ELSE d[x]]

Whitespace == {" "}

RECURSIVE LStrip(_)
LStrip(s) == IF s # <<>> /\ Head(s) \in Whitespace THEN LStrip(Tail(s)) ELSE s

RECURSIVE RStrip(_)
RStrip(s) ==
    IF s # <<>> /\ s[Len(s)] \in Whitespace THEN RStrip(SubSeq(s, 1, Len(s) - 1)) ELSE s

\* str.strip()
Strip(s) == RStrip(LStrip(s))

\* the coroutines __init__ hands to asyncio.create_task
BackgroundTasks ==
    {"_periodic_cache_save", "_periodic_group_members_update", "_daily_group_scan"}

\* the handlers whose await points the model can stop at
Handlers == {"modify_llm_prompt", "analyze_nicknames"}

\* an exception travelling up from a call, in the place of its return value
Raised == <<[raise |-> TRUE]>>

\* user_info.get('sex', ''): "absent" stands for a record without the key
SexField(info) == IF info.sex = "absent" THEN "" ELSE info.sex

\* str.lower() on the values a 'sex' field takes in the model
Lower(s) ==
    CASE s = "Male" -> "male"
      [] s = "FEMALE" -> "female"
      [] OTHER -> s

-----------------------------------------------------------------------------
(* Pure helpers of the plugin *)

\* _load_cache(file_path): a file is [kind, content], kind one of "missing",
\* "corrupt" (json.load raises), "unreadable" (open raises), "valid"
LoadCacheNoExcept(file) ==
    IF file.kind # "missing"
    THEN IF file.kind = "valid"
         THEN [ret |-> file.content, raised |-> FALSE, logged |-> FALSE]
         ELSE [ret |-> EmptyDict, raised |-> TRUE, logged |-> FALSE]
    ELSE [ret |-> EmptyDict, raised |-> FALSE, logged |-> FALSE]

_load_cache(file) ==
    IF file.kind # "missing"
    THEN IF file.kind = "valid"
         THEN [ret |-> file.content, raised |-> FALSE, logged |-> FALSE]
         ELSE [ret |-> EmptyDict, raised |-> FALSE, logged |-> TRUE]
    ELSE [ret |-> EmptyDict, raised |-> FALSE, logged |-> FALSE]

\* whether _detect_gender_from_info(user_info) raises: 'sex' holds a value
\* without .lower() ("null" stands for JSON null)
DetectRaises(user_info) ==
    user_info # None /\ user_info # Raised /\ user_info[1].sex = "null"

\* _detect_gender_from_info(user_info): Optional gender
_detect_gender_from_info(user_info) ==
    IF user_info = None
    THEN None
    ELSE LET gender == Lower(SexField(user_info[1]))
         IN  IF gender = "male" THEN Some("nan")
             ELSE IF gender = "female" THEN Some("nv")
             ELSE None

\* _get_default_nickname(gender, persona_prompt); persona_prompt is the set
\* of the keywords ("keai", "meng", "yujie", "aojiao") the prompt contains
_get_default_nickname(gender, persona_prompt) ==
    LET default == IF gender = "nan" THEN default_nicknames.male
                   ELSE IF gender = "nv" THEN default_nicknames.female
                   ELSE default_nicknames.unknown
    IN  IF "keai" \in persona_prompt \/ "meng" \in persona_prompt
        THEN IF gender = "nv" THEN <<"x", "k", "a">> ELSE default
        ELSE IF "yujie" \in persona_prompt
        THEN IF gender = "nv" THEN <<"j", "j">> ELSE <<"x", "s">>
        ELSE IF "aojiao" \in persona_prompt
        THEN IF gender = "nv" THEN <<"b", "d">> ELSE <<"j", "h">>
        ELSE default

\* _get_user_info_from_api(user_id, event) given the outcome of awaiting
\* call_action under wait_for: [kind, data] with kind "ok" (an answer with
\* 'data'), "nodata", "timeout" or "raise"; both exceptions are caught
GetUserInfoUncaught(result) ==
    IF result.kind = "ok" THEN Some(result.data)
    ELSE IF result.kind = "nodata" THEN None
    ELSE Raised

_get_user_info_from_api(result) ==
    IF result.kind = "ok" THEN Some(result.data) ELSE None

\* try: ... except Exception: the handler logs what its body raised
Unguarded(failed) == [raised |-> failed, caught |-> FALSE]

Guarded(failed) == [raised |-> FALSE, caught |-> failed]

\* _is_at_all(event): some At component addresses everyone; first the same
\* test with the spelling 'all' only
IsAtAllOneSpelling(msg) == \E i \in 1..Len(msg.ats) : msg.ats[i] = "all"

_is_at_all(msg) == \E i \in 1..Len(msg.ats) : msg.ats[i] \in AtAllIds

\* _is_cache_expired(update_time, expire_days), evaluated at clock value t
IsCacheExpiredAtEquality(t, update_time, expire_days) ==
    (t - update_time) >= expire_days * 24 * 60 * 60

IsCacheExpiredInMinutes(t, update_time, expire_days) ==
    (t - update_time) > expire_days * 24 * 60

_is_cache_expired(t, update_time, expire_days) ==
    (t - update_time) > expire_days * 24 * 60 * 60

-----------------------------------------------------------------------------
(* The alias map (alias -> list of user ids, a dict in insertion order) *)

AliasLimit == 10

AliasIndex(cache, alias) ==
    IF \E i \in 1..Len(cache) : cache[i].alias = alias
    THEN CHOOSE i \in 1..Len(cache) : cache[i].alias = alias
    ELSE 0

InSeq(x, s) == \E i \in 1..Len(s) : s[i] = x

\* the user ids recorded for alias, in insertion order
AliasIds(cache, alias) ==
    IF AliasIndex(cache, alias) = 0 THEN <<>> ELSE cache[AliasIndex(cache, alias)].ids

\* s[-n:]; first s[:n]
FirstN(s, n) == IF Len(s) > n THEN SubSeq(s, 1, n) ELSE s

LastN(s, n) == IF Len(s) > n THEN SubSeq(s, Len(s) - n + 1, Len(s)) ELSE s

\* _update_user_alias(alias, user_id)
_update_user_alias(cache, alias, user_id) ==
    IF alias # <<>> /\ Len(alias) >= 2
    THEN LET c1 == IF AliasIndex(cache, alias) = 0
                   THEN Append(cache, [alias |-> alias, ids |-> <<>>])
                   ELSE cache
             i == AliasIndex(c1, alias)
         IN  IF ~InSeq(user_id, c1[i].ids)
             THEN LET ids1 == Append(c1[i].ids, user_id)
                      ids2 == IF Len(ids1) > AliasLimit THEN LastN(ids1, AliasLimit) ELSE ids1
                  IN  [c1 EXCEPT ![i].ids = ids2]
             ELSE c1
    ELSE cache

\* the alias update every caller performs with a record's nickname and card
UpdateAliasesFromInfo(cache, info, user_id) ==
    LET c1 == IF info.nickname # <<>>
              THEN _update_user_alias(cache, info.nickname, user_id)
              ELSE cache
    IN  IF info.card # <<>> /\ info.card # info.nickname
        THEN _update_user_alias(c1, info.card, user_id)
        ELSE c1

-----------------------------------------------------------------------------
(* The priority list of nicknames: a sequence of <<text, priority>> *)

MaxPriority(s) == CHOOSE p \in {s[i][2] : i \in 1..Len(s)} :
                      \A i \in 1..Len(s) : s[i][2] <= p

\* list.sort(key=lambda x: x[1], reverse=True): stable, descending priority
RECURSIVE SortByPriorityDesc(_)
SortByPriorityDesc(s) ==
    IF s = <<>>
    THEN <<>>
    ELSE LET m == MaxPriority(s)
             IsMax(e) == e[2] = m
             NotMax(e) == e[2] # m
         IN  SelectSeq(s, IsMax) \o SortByPriorityDesc(SelectSeq(s, NotMax))

\* index of the first entry whose text is nickname, 0 when there is none
FindNickname(existing, nickname) ==
    IF \E i \in 1..Len(existing) : existing[i][1] = nickname
    THEN CHOOSE i \in 1..Len(existing) :
             /\ existing[i][1] = nickname
             /\ \A j \in 1..(i - 1) : existing[j][1] # nickname
    ELSE 0

\* s[:n]
Prefix(s, n) == SubSeq(s, 1, Min(n, Len(s)))

\* lines 669-680 of analyze_nicknames: merge or append one observation
MergeAppendAlways(existing, nickname, priority, maxn) ==
    Append(existing, <<nickname, priority>>)

MergeEvicting(existing, nickname, priority, maxn) ==
    LET i == FindNickname(existing, nickname)
    IN  IF i # 0
        THEN IF priority > existing[i][2]
             THEN [existing EXCEPT ![i] = <<nickname, priority>>]
             ELSE existing
        ELSE Append(existing, <<nickname, priority>>)

MergeNickname(existing, nickname, priority, maxn) ==
    LET i == FindNickname(existing, nickname)
    IN  IF i # 0
        THEN IF priority > existing[i][2]
             THEN [existing EXCEPT ![i] = <<nickname, priority>>]
             ELSE existing
        ELSE IF Len(existing) < maxn
        THEN Append(existing, <<nickname, priority>>)
        ELSE existing

\* lines 682-685 of analyze_nicknames: sort, truncate, select
RankNoSort(existing, maxn) ==
    [nicknames |-> Prefix(existing, maxn),
     selected |-> IF existing # <<>> THEN Some(existing[1][1]) ELSE None]

RankNicknames(existing, maxn) ==
    LET sorted == SortByPriorityDesc(existing)
    IN  [nicknames |-> Prefix(sorted, maxn),
         selected |-> IF sorted # <<>> THEN Some(sorted[1][1]) ELSE None]

\* lines 659-685 of analyze_nicknames for one item (nickname, priority, target)
UpdateNicknamesUnbounded(cache, target_user_id, nickname, priority) ==
    LET c1 == IF target_user_id \notin DOMAIN cache
              THEN DictSet(cache, target_user_id, [nicknames |-> <<>>, selected |-> None])
              ELSE cache
        existing == MergeEvicting(c1[target_user_id].nicknames, nickname, priority,
                                  max_nicknames)
        sorted == SortByPriorityDesc(existing)
    IN  DictSet(c1, target_user_id,
                [nicknames |-> sorted, selected |-> Some(sorted[1][1])])

UpdateNicknames(cache, target_user_id, nickname, priority) ==
    LET c1 == IF target_user_id \notin DOMAIN cache
              THEN DictSet(cache, target_user_id, [nicknames |-> <<>>, selected |-> None])
              ELSE cache
        existing == MergeNickname(c1[target_user_id].nicknames, nickname, priority,
                                  max_nicknames)
    IN  DictSet(c1, target_user_id, RankNicknames(existing, max_nicknames))

\* the loop of lines 652-685 over the extracted items
RECURSIVE UpdateAllNicknames(_, _)
UpdateAllNicknames(cache, items) ==
    IF items = <<>>
    THEN cache
    ELSE UpdateAllNicknames(
             UpdateNicknames(cache, Head(items)[3], Head(items)[1], Head(items)[2]),
             Tail(items))

\* the default entry created for a user without one (lines 226, 570, 782)
DefaultNicknameInfo(default_nickname) ==
    [nicknames |-> << <<default_nickname, 1>> >>, selected |-> Some(default_nickname)]

-----------------------------------------------------------------------------
(* _extract_nickname_from_message.  The regular expressions are run by the  *)
(* library: a message carries, in msg.found, the captures re.findall gives  *)
(* for each pattern, as <<pattern index, capture>> in order of occurrence.  *)

\* the patterns list: priority and condition of each pattern
patterns ==
    << [priority |-> 3, condition |-> "None"],
       [priority |-> 3, condition |-> "None"],
       [priority |-> 3, condition |-> "None"],
       [priority |-> 2, condition |-> "at_start"],
       [priority |-> 2, condition |-> "has_at"] >>

\* the items one pattern adds for its matches (lines 464-472); first the
\* same with every candidate attributed to the sender
ItemsToSender(matches, priority, user_id, mentioned_users) ==
    LET Fits(match) == match # <<>> /\ 2 <= Len(match) /\ Len(match) <= 5
        fit == SelectSeq(matches, Fits)
    IN  [i \in 1..Len(fit) |-> <<Strip(fit[i]), priority, user_id>>]

RECURSIVE ItemsOfMatches(_, _, _, _)
ItemsOfMatches(matches, priority, user_id, mentioned_users) ==
    IF matches = <<>>
    THEN <<>>
    ELSE LET match == Head(matches)
             rest == ItemsOfMatches(Tail(matches), priority, user_id, mentioned_users)
         IN  IF match # <<>> /\ 2 <= Len(match) /\ Len(match) <= 5
             THEN IF priority = 2 /\ mentioned_users # <<>>
                  THEN << <<Strip(match), priority, mentioned_users[1]>> >> \o rest
                  ELSE << <<Strip(match), priority, user_id>> >> \o rest
             ELSE rest

CapturesOf(found, k) ==
    LET IsK(f) == f[1] = k
        hits == SelectSeq(found, IsK)
    IN  [i \in 1..Len(hits) |-> hits[i][2]]

RECURSIVE ExtractFrom(_, _, _, _)
ExtractFrom(k, msg, user_id, mentioned_users) ==
    IF k > Len(patterns)
    THEN <<>>
    ELSE LET has_at == mentioned_users # <<>>
             condition == patterns[k].condition
             skip == \/ condition = "has_at" /\ ~has_at
                     \/ condition = "at_start" /\ ~(has_at /\ msg.at_pos < 5)
             here == IF skip
                     THEN <<>>
                     ELSE ItemsOfMatches(CapturesOf(msg.found, k), patterns[k].priority,
                                         user_id, mentioned_users)
         IN  here \o ExtractFrom(k + 1, msg, user_id, mentioned_users)

_extract_nickname_from_message(msg, user_id, mentioned_users) ==
    IF ~enable_nickname_learning
    THEN <<>>
    ELSE ExtractFrom(1, msg, user_id, mentioned_users)

-----------------------------------------------------------------------------
(* Events and answers of the platform API.                                 *)
(*                                                                         *)
(* A message (AstrMessageEvent) is                                         *)
(*   [id, sender, group, ats, at_pos, found, mentions]:                    *)
(* the message id, the sender id, the Optional group id, the qq values of  *)
(* its At components, message_str.find('@'), the regex captures and the    *)
(* set of alias texts that occur in message_str.                           *)
(* An answer of get_group_member_info / get_stranger_info is an Optional   *)
(* [sex, nickname, card]; None stands for a timeout, an error, another     *)
(* platform or an answer without 'data'.  An answer of                     *)
(* get_group_member_list is an Optional sequence of                        *)
(* [user_id, sex, nickname, card].                                         *)

\* the At targets of the message that are not "everyone" (lines 641-646)
RECURSIVE MentionedUsers(_)
MentionedUsers(ats) ==
    IF ats = <<>>
    THEN <<>>
    ELSE IF Head(ats) \notin AtAllIds
    THEN <<Head(ats)>> \o MentionedUsers(Tail(ats))
    ELSE MentionedUsers(Tail(ats))

\* append the ids of more that are not in ids yet (lines 531-533, 537-539)
RECURSIVE AppendNew(_, _)
AppendNew(ids, more) ==
    IF more = <<>>
    THEN ids
    ELSE IF InSeq(Head(more), ids)
    THEN AppendNew(ids, Tail(more))
    ELSE AppendNew(Append(ids, Head(more)), Tail(more))

MemberIndex(members, user_id) ==
    IF \E i \in 1..Len(members) : members[i].user_id = user_id
    THEN CHOOSE i \in 1..Len(members) : members[i].user_id = user_id
    ELSE 0

\* lines 315-328 of _get_group_members: the members dict, in insertion order,
\* and the alias map updated from every member
RECURSIVE CollectMembers(_, _, _)
CollectMembers(data, members, aliases) ==
    IF data = <<>>
    THEN [members |-> members, aliases |-> aliases]
    ELSE LET member == Head(data)
             i == MemberIndex(members, member.user_id)
         IN  IF member.user_id # ""
             THEN CollectMembers(
                      Tail(data),
                      IF i = 0 THEN Append(members, member)
                      ELSE [members EXCEPT ![i] = member],
                      UpdateAliasesFromInfo(aliases, member, member.user_id))
             ELSE CollectMembers(Tail(data), members, aliases)

\* _get_group_members(group_id, event) with the answer of the API:
\* the members returned, the alias map and the members cache afterwards
_get_group_members(group_id, answer, aliases, gmc) ==
    IF group_id \in DOMAIN gmc
    THEN [members |-> gmc[group_id], aliases |-> aliases, gmc |-> gmc]
    ELSE IF answer # None
    THEN LET r == CollectMembers(answer[1], <<>>, aliases)
         IN  [members |-> r.members, aliases |-> r.aliases,
              gmc |-> DictSet(gmc, group_id, r.members)]
    ELSE [members |-> <<>>, aliases |-> aliases, gmc |-> gmc]

\* the first id of ids that is a member (lines 385-388), as a list of 0 or 1
RECURSIVE FirstMember(_, _)
FirstMember(ids, members) ==
    IF ids = <<>>
    THEN <<>>
    ELSE IF MemberIndex(members, Head(ids)) # 0
    THEN <<Head(ids)>>
    ELSE FirstMember(Tail(ids), members)

\* lines 381-392 of _detect_users_in_message: the users whose alias occurs
RECURSIVE DetectByAlias(_, _, _)
DetectByAlias(aliases, mentions, members) ==
    IF aliases = <<>>
    THEN <<>>
    ELSE LET e == Head(aliases)
             rest == DetectByAlias(Tail(aliases), mentions, members)
         IN  IF e.alias \in mentions
             THEN IF members # <<>>
                  THEN FirstMember(e.ids, members) \o rest
                  ELSE IF e.ids # <<>> THEN <<e.ids[1]>> \o rest ELSE rest
             ELSE rest

\* _detect_users_in_message(message, event): the ids detected, without
\* repetition.  A capture of the second pattern family is a substring of the
\* message, so the user it names is already found by the first.
_detect_users_in_message(msg, aliases, members) ==
    IF ~enable_smart_user_detection
    THEN <<>>
    ELSE AppendNew(<<>>, DetectByAlias(aliases, msg.mentions, members))

-----------------------------------------------------------------------------
(* The gender cache *)

GenderOf(gc, user_id) == IF user_id \in DOMAIN gc THEN gc[user_id].gender ELSE "weizhi"

\* lines 548-551: whether modify_llm_prompt asks the API about user_id
NeedsLookupNeverExpires(gc, user_id, t) ==
    user_id \notin DOMAIN gc

NeedsLookup(gc, user_id, t) ==
    \/ user_id \notin DOMAIN gc
    \/ _is_cache_expired(t, gc[user_id].update_time, cache_expire_days)

\* lines 553-559, 868-874: store the gender the answer gives, if it gives one
StoreUnknownToo(gc, user_id, user_info, nickname, t) ==
    LET gender == _detect_gender_from_info(user_info)
    IN  DictSet(gc, user_id,
                [gender |-> IF gender # None THEN gender[1] ELSE "weizhi",
                 nickname |-> nickname, update_time |-> t])

StoreGender(gc, user_id, user_info, nickname, t) ==
    LET gender == _detect_gender_from_info(user_info)
    IN  IF gender # None
        THEN DictSet(gc, user_id,
                     [gender |-> gender[1], nickname |-> nickname, update_time |-> t])
        ELSE gc

\* what a handler reports about one user: the clock value, whether an entry
\* existed, its age by the clock of the event loop and by the wall clock,
\* whether the API was asked, what the answer gave, what is served and the
\* update_time of the entry afterwards
Report(gc, gc1, selected, user_id, called, user_info, t) ==
    [user |-> user_id,
     at |-> t,
     had |-> user_id \in DOMAIN gc,
     cached |-> GenderOf(gc, user_id),
     age |-> IF user_id \in DOMAIN gc THEN t - gc[user_id].update_time ELSE -1,
     elapsed |-> IF user_id \in DOMAIN gc THEN boot + t - written[user_id] ELSE -1,
     called |-> called,
     fetched |-> IF called THEN _detect_gender_from_info(user_info) ELSE None,
     gender |-> GenderOf(gc1, user_id),
     stored |-> IF user_id \in DOMAIN gc1 THEN gc1[user_id].update_time ELSE -1,
     kept |-> IF user_id \in DOMAIN gc
              THEN user_id \in DOMAIN gc1 /\ gc1[user_id] = gc[user_id]
              ELSE user_id \notin DOMAIN gc1,
     selected |-> selected]

\* the wall-clock dates of the gender entries after an operation that took
\* the clock value t for update_time: an entry was written for every report
\* whose lookup gave a gender
Stamped(reports, t) ==
    [u \in Users |->
        IF \E i \in 1..Len(reports) :
               reports[i].user = u /\ reports[i].called /\ reports[i].fetched # None
        THEN boot + t
        ELSE written[u]]

\* lines 546-586 of modify_llm_prompt: the loop over all_user_ids
\* whether the lookup and the detection of lines 552-553 raise
LookupRaises(user_info) == user_info = Raised \/ DetectRaises(user_info)

RECURSIVE PromptLoop(_, _, _, _, _, _, _)
PromptLoop(ids, gc, nc, reports, api, persona, t) ==
    IF ids = <<>>
    THEN [gc |-> gc, nc |-> nc, reports |-> reports, raised |-> FALSE, why |-> ""]
    ELSE IF NeedsLookup(gc, Head(ids), t) /\ LookupRaises(api[Head(ids)])
    THEN [gc |-> gc, nc |-> nc, reports |-> reports, raised |-> TRUE,
          why |-> IF api[Head(ids)] = Raised THEN "lookup" ELSE "detect"]
    ELSE LET user_id == Head(ids)
             called == NeedsLookup(gc, user_id, t)
             user_info == api[user_id]
             gc1 == IF called
                    THEN StoreGender(gc, user_id, user_info,
                                     IF user_info # None THEN user_info[1].nickname
                                     ELSE <<>>, t)
                    ELSE gc
             gender == GenderOf(gc1, user_id)
             nc1 == IF user_id \notin DOMAIN nc
                    THEN DictSet(nc, user_id,
                                 DefaultNicknameInfo(_get_default_nickname(gender, persona)))
                    ELSE nc
         IN  PromptLoop(Tail(ids), gc1, nc1,
                        Append(reports, Report(gc, gc1, nc1[user_id].selected, user_id, called,
                                               user_info, t)),
                        api, persona, t)

-----------------------------------------------------------------------------
(* The cache files *)

Files == {"gender_cache", "nickname_cache", "user_alias", "scan_history"}

MissingFile == [kind |-> "missing", content |-> EmptyDict]

ValidFile(content) == [kind |-> "valid", content |-> content]

\* _save_cache(): all four files are written; when a write fails the
\* exception is caught, the file being written is left damaged and the
\* later ones are not written
_save_cache(d, gc, nc, aliases, history, ok) ==
    IF ok
    THEN [f \in Files |->
             IF f = "gender_cache" THEN ValidFile(gc)
             ELSE IF f = "nickname_cache" THEN ValidFile(nc)
             ELSE IF f = "user_alias" THEN ValidFile(aliases)
             ELSE ValidFile(history)]
    ELSE [d EXCEPT !["gender_cache"] = [kind |-> "corrupt", content |-> EmptyDict]]

-----------------------------------------------------------------------------
(* Handlers *)

ProcessedLimit == 1000

\* the observation of an operation that returned early
Skipped(op) ==
    [op |-> op, skipped |-> TRUE, reports |-> <<>>, items |-> <<>>,
     raised |-> FALSE, caught |-> FALSE, lines |-> <<>>]

\* the observation of an operation that ran: outcome tells whether an
\* exception was caught by the handler or left it, lines is the annotation
\* appended to req.system_prompt
Ran(op, reports, items, outcome, lines) ==
    [op |-> op, skipped |-> FALSE, reports |-> reports, items |-> items,
     raised |-> outcome.raised, caught |-> outcome.caught, lines |-> lines]

\* lines 579-586, 590-592: one annotation line per report
AnnotationOf(reports, sender_id) ==
    [i \in 1..Len(reports) |->
        [role |-> IF reports[i].user = sender_id THEN "sender" ELSE "mentioned",
         user |-> reports[i].user,
         gender |-> reports[i].gender,
         nickname |-> reports[i].selected]]

\* @filter.on_llm_request() modify_llm_prompt(event, req); persona is the
\* set of persona keywords in req.system_prompt
modify_llm_prompt(msg, api, answer, persona) ==
    /\ running
    /\ IF _is_at_all(msg) \/ msg.sender = ""
       THEN /\ out' = Skipped("modify_llm_prompt")
                       @@ [why |-> IF _is_at_all(msg) THEN "at_all" ELSE "no_sender"]
            /\ UNCHANGED <<gender_cache, written, nickname_cache, user_alias_cache,
                           group_members_cache>>
       ELSE LET mentioned_users == AppendNew(<<>>,
                                       SelectSeq(MentionedUsers(msg.ats),
                                                 LAMBDA u : u # msg.sender))
                g == IF msg.group # None
                     THEN _get_group_members(msg.group[1], answer, user_alias_cache,
                                             group_members_cache)
                     ELSE [members |-> <<>>, aliases |-> user_alias_cache,
                           gmc |-> group_members_cache]
                detected_users == _detect_users_in_message(msg, g.aliases, g.members)
                all_user_ids == AppendNew(<<msg.sender>> \o mentioned_users, detected_users)
                r == PromptLoop(all_user_ids, gender_cache, nickname_cache, <<>>,
                                api, persona, now)
            IN  /\ gender_cache' = r.gc
                /\ written' = Stamped(r.reports, now)
                /\ nickname_cache' = r.nc
                /\ user_alias_cache' = g.aliases
                /\ group_members_cache' = g.gmc
                /\ out' = Ran("modify_llm_prompt", r.reports, <<>>, Guarded(r.raised),
                               IF r.raised THEN <<>>
                               ELSE AnnotationOf(r.reports, msg.sender))
                           @@ [ids |-> all_user_ids, why |-> r.why]
    /\ UNCHANGED <<scan_history, processed_messages, handled, disk, running, now, boot,
                   tasks, inflight>>

\* @filter.event_message_type(ALL) analyze_nicknames(event); info is the
\* answer of the API about the sender
analyze_nicknames(msg, info) ==
    /\ running
    /\ enable_nickname_learning
    /\ IF _is_at_all(msg) \/ msg.id \in processed_messages
       THEN /\ out' = Skipped("analyze_nicknames")
                       @@ [why |-> IF _is_at_all(msg) THEN "at_all" ELSE "duplicate"]
            /\ UNCHANGED <<nickname_cache, user_alias_cache, processed_messages, handled>>
       ELSE LET seen == processed_messages \cup {msg.id}
                mentioned_users == MentionedUsers(msg.ats)
                new_nicknames == _extract_nickname_from_message(msg, msg.sender,
                                                                mentioned_users)
            IN  /\ processed_messages' =
                       IF Cardinality(seen) > ProcessedLimit THEN {} ELSE seen
                /\ handled' = handled \cup {msg.id}
                /\ nickname_cache' = UpdateAllNicknames(nickname_cache, new_nicknames)
                /\ user_alias_cache' =
                       IF msg.sender # "" /\ info # None /\ info # Raised
                       THEN UpdateAliasesFromInfo(user_alias_cache, info[1], msg.sender)
                       ELSE user_alias_cache
                /\ out' = Ran("analyze_nicknames", <<>>, new_nicknames,
                               Guarded(msg.sender # "" /\ info = Raised), <<>>)
    /\ UNCHANGED <<gender_cache, written, scan_history, group_members_cache, disk,
                   running, now, boot, tasks, inflight>>

\* the text shown for a missing value ('weizhi', 'wu')
UnknownText == <<"w", "z">>

NoneText == <<"w", "u">>

\* lines 845-860 of check_gender: the (user_id, nickname) pairs to report
RECURSIVE TargetsOfAts(_, _)
TargetsOfAts(ats, api) ==
    IF ats = <<>>
    THEN <<>>
    ELSE IF Head(ats) \notin AtAllIds
    THEN LET user_info == api[Head(ats)]
             nickname == IF user_info = None THEN UnknownText
                         ELSE IF user_info[1].nickname # <<>> THEN user_info[1].nickname
                         ELSE IF user_info[1].card # <<>> THEN user_info[1].card
                         ELSE UnknownText
         IN  << <<Head(ats), nickname>> >> \o TargetsOfAts(Tail(ats), api)
    ELSE TargetsOfAts(Tail(ats), api)

\* lines 864-895 of check_gender: the loop over target_users
RECURSIVE CheckLoop(_, _, _, _, _, _)
CheckLoop(targets, gc, nc, reports, api, t) ==
    IF targets = <<>>
    THEN [gc |-> gc, reports |-> reports, raised |-> FALSE]
    ELSE IF Head(targets)[1] \notin DOMAIN gc /\ LookupRaises(api[Head(targets)[1]])
    THEN [gc |-> gc, reports |-> reports, raised |-> TRUE]
    ELSE LET target_user_id == Head(targets)[1]
             called == target_user_id \notin DOMAIN gc
             user_info == api[target_user_id]
             gc1 == IF called
                    THEN StoreGender(gc, target_user_id, user_info, Head(targets)[2], t)
                    ELSE gc
             selected == IF target_user_id \in DOMAIN nc
                         THEN nc[target_user_id].selected
                         ELSE Some(NoneText)
         IN  CheckLoop(Tail(targets), gc1, nc,
                       Append(reports, Report(gc, gc1, selected, target_user_id, called,
                                              user_info, t)),
                       api, t)

\* @filter.command("gender") check_gender(event)
check_gender(msg, api) ==
    /\ running
    /\ IF \E i \in 1..Len(msg.ats) : msg.ats[i] \notin AtAllIds /\ api[msg.ats[i]] = Raised
       THEN /\ out' = Ran("check_gender", <<>>, <<>>, Guarded(TRUE), <<>>)
            /\ UNCHANGED <<gender_cache, written>>
       ELSE LET at_targets == TargetsOfAts(msg.ats, api)
                target_users == IF at_targets # <<>>
                                THEN at_targets
                                ELSE << <<msg.sender, msg.sender_name>> >>
                r == CheckLoop(target_users, gender_cache, nickname_cache, <<>>, api, now)
            IN  /\ gender_cache' = r.gc
                /\ written' = Stamped(r.reports, now)
                /\ out' = Ran("check_gender", r.reports, <<>>, Guarded(r.raised), <<>>)
    /\ UNCHANGED <<nickname_cache, user_alias_cache, scan_history, processed_messages,
                   handled, group_members_cache, disk, running, now, boot, tasks,
                   inflight>>

\* lines 745-793 of manual_scan and 213-237 of _scan_all_groups: one member
ScanMember(member, st, t) ==
    IF DetectRaises(Some(member))
    THEN [st EXCEPT !.raised = TRUE]
    ELSE
    LET user_id == member.user_id
        gc1 == StoreGender(st.gc, user_id, Some(member), member.nickname, t)
        cached_gender == GenderOf(gc1, user_id)
        nc1 == IF user_id \notin DOMAIN st.nc
               THEN DictSet(st.nc, user_id,
                            DefaultNicknameInfo(_get_default_nickname(cached_gender, {})))
               ELSE st.nc
    IN  [gc |-> gc1, nc |-> nc1,
         aliases |-> UpdateAliasesFromInfo(st.aliases, member, user_id),
         reports |-> Append(st.reports,
                            Report(st.gc, gc1, nc1[user_id].selected, user_id, TRUE,
                                   Some(member), t)),
         raised |-> FALSE]

RECURSIVE ScanMembers(_, _, _)
ScanMembers(members, st, t) ==
    IF members = <<>> \/ st.raised
    THEN st
    ELSE IF Head(members).user_id = ""
    THEN ScanMembers(Tail(members), st, t)
    ELSE ScanMembers(Tail(members), ScanMember(Head(members), st, t), t)

\* @filter.command("gender_scan") manual_scan(event); ok tells whether the
\* files can be written
manual_scan(msg, answer, ok) ==
    /\ running
    /\ IF msg.group = None
       THEN /\ out' = Skipped("manual_scan")
            /\ UNCHANGED <<gender_cache, written, nickname_cache, user_alias_cache,
                           scan_history, group_members_cache, disk>>
       ELSE LET g == _get_group_members(msg.group[1], answer, user_alias_cache,
                                        group_members_cache)
                r == ScanMembers(g.members,
                                 [gc |-> gender_cache, nc |-> nickname_cache,
                                  aliases |-> g.aliases, reports |-> <<>>,
                                  raised |-> FALSE], now)
            IN  /\ group_members_cache' = g.gmc
                /\ IF g.members = <<>>
                   THEN /\ user_alias_cache' = g.aliases
                        /\ out' = Skipped("manual_scan")
                        /\ UNCHANGED <<gender_cache, written, nickname_cache,
                                       scan_history, disk>>
                   ELSE /\ gender_cache' = r.gc
                        /\ written' = Stamped(r.reports, now)
                        /\ nickname_cache' = r.nc
                        /\ user_alias_cache' = r.aliases
                        /\ disk' = IF r.raised THEN disk
                                   ELSE _save_cache(disk, r.gc, r.nc, r.aliases,
                                                    scan_history, ok)
                        /\ scan_history' =
                               IF r.raised THEN scan_history
                               ELSE Some([groups |-> 1, members |-> Len(g.members)])
                        /\ out' = Ran("manual_scan", r.reports, <<>>, Guarded(r.raised),
                                       <<>>)
    /\ UNCHANGED <<processed_messages, handled, running, now, boot, tasks, inflight>>

\* lines 191-237 of _scan_all_groups: the loop over the groups; a group is
\* [group_id, kind, data], kind "ok" (data is the member list), "none" (no
\* 'data' in the answer) or "raise" (call_action raises)
RECURSIVE ScanGroups(_, _, _, _)
ScanGroups(groups, st, counts, t) ==
    IF groups = <<>>
    THEN [st |-> st, counts |-> counts]
    ELSE LET group == Head(groups)
         IN  IF group.group_id = ""
             THEN ScanGroups(Tail(groups), st, counts, t)
             ELSE IF group.kind = "raise"
             THEN [st |-> [st EXCEPT !.raised = TRUE], counts |-> counts]
             ELSE IF group.kind = "none"
             THEN ScanGroups(Tail(groups), st, counts, t)
             ELSE LET st1 == ScanMembers(group.data, st, t)
                      counts1 == [groups |-> counts.groups + 1,
                                  members |-> counts.members
                                              + Len(st1.reports) - Len(st.reports)
                                              + IF st1.raised THEN 1 ELSE 0]
                  IN  IF st1.raised
                      THEN [st |-> st1, counts |-> counts1]
                      ELSE ScanGroups(Tail(groups), st1, counts1, t)

\* the members the platform lists with a user_id and a well-formed record,
\* in the groups whose member list it gives
RECURSIVE ListedMembers(_)
ListedMembers(groups) ==
    IF groups = <<>>
    THEN {}
    ELSE LET group == Head(groups)
             here == IF group.group_id # "" /\ group.kind = "ok"
                     THEN {group.data[i].user_id : i \in
                              {j \in 1..Len(group.data) :
                                  /\ group.data[j].user_id # ""
                                  /\ ~DetectRaises(Some(group.data[j]))}}
                     ELSE {}
         IN  here \cup ListedMembers(Tail(groups))

\* what a scan that was not started from a computed schedule reports about it
NoRound == [date |-> None, scheduled |-> None]

\* _scan_all_groups(): answer is the Optional list of groups get_group_list
\* gives, round the date and the schedule of the round that runs the scan
ScanAllGroupsIn(answer, round) ==
    /\ "_daily_group_scan" \in tasks
    /\ LET r == ScanGroups(IF answer # None THEN answer[1] ELSE <<>>,
                           [gc |-> gender_cache, nc |-> nickname_cache,
                            aliases |-> user_alias_cache, reports |-> <<>>,
                            raised |-> FALSE],
                           [groups |-> 0, members |-> 0], now)
       IN  /\ gender_cache' = r.st.gc
           /\ written' = Stamped(r.st.reports, now)
           /\ nickname_cache' = r.st.nc
           /\ user_alias_cache' = r.st.aliases
           /\ scan_history' = Some(r.counts)
           /\ out' = Ran("_scan_all_groups", r.st.reports, <<>>, Guarded(r.st.raised),
                          <<>>)
                      @@ [listed |-> ListedMembers(IF answer # None THEN answer[1]
                                                   ELSE <<>>)]
                      @@ round
    /\ UNCHANGED <<processed_messages, handled, group_members_cache, disk, running, now,
                   boot, tasks, inflight>>

-----------------------------------------------------------------------------
(* The handlers step by step: a coroutine runs until it awaits the         *)
(* platform, other coroutines run while it waits, and it goes on when the  *)
(* call returns.  inflight[h] is the frame of the suspended coroutine of   *)
(* handler h: where it waits (pc) and its local variables.                 *)

Awaiting == Skipped("await")

\* one pass of the loop body of lines 546-586 once its lookup, if it made
\* one, has returned
PromptUser(user_id, gc, nc, called, user_info, persona, t) ==
    LET gc1 == IF called
               THEN StoreGender(gc, user_id, user_info,
                                IF user_info # None THEN user_info[1].nickname ELSE <<>>, t)
               ELSE gc
        nc1 == IF user_id \notin DOMAIN nc
               THEN DictSet(nc, user_id,
                            DefaultNicknameInfo(
                                _get_default_nickname(GenderOf(gc1, user_id), persona)))
               ELSE nc
    IN  [gc |-> gc1, nc |-> nc1,
         report |-> Report(gc, gc1, nc1[user_id].selected, user_id, called, user_info, t)]

\* the loop of lines 546-586 up to its next await: the users that need no
\* lookup at the clock value 'clock' are handled without a suspension
RECURSIVE PromptAdvance(_, _, _, _, _, _, _)
PromptAdvance(ids, gc, nc, reports, persona, t, clock) ==
    IF ids = <<>> \/ NeedsLookup(gc, Head(ids), clock)
    THEN [ids |-> ids, nc |-> nc, reports |-> reports]
    ELSE LET r == PromptUser(Head(ids), gc, nc, FALSE, None, persona, t)
         IN  PromptAdvance(Tail(ids), gc, r.nc, Append(reports, r.report), persona, t, clock)

\* the coroutine of modify_llm_prompt goes on from the user list ids with
\* the caches gc and nc, until it awaits a lookup or returns; fresh is the
\* report of the lookup that has just returned, if one has
PromptRun(msg, persona, ids, gc, nc, reports, fresh, t) ==
    LET a == PromptAdvance(ids, gc, nc, reports, persona, t, now)
    IN  /\ gender_cache' = gc
        /\ written' = Stamped(fresh, t)
        /\ nickname_cache' = a.nc
        /\ IF a.ids = <<>>
           THEN /\ inflight' = [inflight EXCEPT !["modify_llm_prompt"] = None]
                /\ out' = Ran("modify_llm_prompt", a.reports, <<>>, Guarded(FALSE),
                               AnnotationOf(a.reports, msg.sender))
                           @@ [ids |-> [i \in 1..Len(a.reports) |-> a.reports[i].user],
                               why |-> ""]
           ELSE /\ inflight' = [inflight EXCEPT !["modify_llm_prompt"] =
                                   Some([pc |-> "lookup", msg |-> msg, persona |-> persona,
                                         t |-> t, ids |-> a.ids, reports |-> a.reports])]
                /\ out' = Awaiting

\* lines 518-544 of modify_llm_prompt once the group members are known
PromptCollect(msg, persona, g) ==
    LET mentioned_users == AppendNew(<<>>,
                               SelectSeq(MentionedUsers(msg.ats), LAMBDA u : u # msg.sender))
        detected_users == _detect_users_in_message(msg, g.aliases, g.members)
        all_user_ids == AppendNew(<<msg.sender>> \o mentioned_users, detected_users)
    IN  /\ user_alias_cache' = g.aliases
        /\ group_members_cache' = g.gmc
        /\ PromptRun(msg, persona, all_user_ids, gender_cache, nickname_cache, <<>>, <<>>, now)

\* modify_llm_prompt starts and runs to its first await: the member list of
\* the group (line 309) or the first lookup (line 552)
prompt_begin(msg, persona) ==
    /\ running
    /\ inflight["modify_llm_prompt"] = None
    /\ IF _is_at_all(msg) \/ msg.sender = ""
       THEN /\ out' = Skipped("modify_llm_prompt")
                       @@ [why |-> IF _is_at_all(msg) THEN "at_all" ELSE "no_sender"]
            /\ UNCHANGED <<gender_cache, written, nickname_cache, user_alias_cache,
                           group_members_cache, inflight>>
       ELSE IF /\ enable_smart_user_detection
               /\ msg.group # None
               /\ msg.group[1] \notin DOMAIN group_members_cache
       THEN /\ inflight' = [inflight EXCEPT !["modify_llm_prompt"] =
                               Some([pc |-> "members", msg |-> msg, persona |-> persona,
                                     t |-> now, ids |-> <<>>, reports |-> <<>>])]
            /\ out' = Awaiting
            /\ UNCHANGED <<gender_cache, written, nickname_cache, user_alias_cache,
                           group_members_cache>>
       ELSE PromptCollect(msg, persona,
                          [members |-> IF msg.group # None
                                       THEN group_members_cache[msg.group[1]] ELSE <<>>,
                           aliases |-> user_alias_cache, gmc |-> group_members_cache])
    /\ UNCHANGED <<scan_history, processed_messages, handled, disk, running, now, boot,
                   tasks>>

\* the call of line 309 returns (answer is None when it failed)
prompt_members(answer) ==
    /\ inflight["modify_llm_prompt"] # None
    /\ inflight["modify_llm_prompt"][1].pc = "members"
    /\ LET f == inflight["modify_llm_prompt"][1]
       IN  PromptCollect(f.msg, f.persona,
                         _get_group_members(f.msg.group[1], answer, user_alias_cache,
                                            group_members_cache))
    /\ UNCHANGED <<scan_history, processed_messages, handled, disk, running, now, boot,
                   tasks>>

\* the lookup of line 552 returns or its wait_for gives up: the result is
\* stored with the current_time taken at line 544 and the loop goes on
prompt_lookup(result) ==
    /\ inflight["modify_llm_prompt"] # None
    /\ inflight["modify_llm_prompt"][1].pc = "lookup"
    /\ LET f == inflight["modify_llm_prompt"][1]
           user_info == _get_user_info_from_api(result)
       IN  IF LookupRaises(user_info)
           THEN /\ inflight' = [inflight EXCEPT !["modify_llm_prompt"] = None]
                /\ out' = Ran("modify_llm_prompt", f.reports, <<>>, Guarded(TRUE), <<>>)
                           @@ [ids |-> [i \in 1..Len(f.reports) |-> f.reports[i].user],
                               why |-> IF user_info = Raised THEN "lookup" ELSE "detect"]
                /\ UNCHANGED <<gender_cache, written, nickname_cache>>
           ELSE LET r == PromptUser(Head(f.ids), gender_cache, nickname_cache, TRUE,
                                    user_info, f.persona, f.t)
                IN  PromptRun(f.msg, f.persona, Tail(f.ids), r.gc, r.nc,
                              Append(f.reports, r.report), <<r.report>>, f.t)
    /\ UNCHANGED <<user_alias_cache, scan_history, processed_messages, handled,
                   group_members_cache, disk, running, now, boot, tasks>>

\* analyze_nicknames starts, learns the nicknames of the message and awaits
\* the record of the sender (line 692)
analyze_begin(msg) ==
    /\ running
    /\ enable_nickname_learning
    /\ inflight["analyze_nicknames"] = None
    /\ IF _is_at_all(msg) \/ msg.id \in processed_messages
       THEN /\ out' = Skipped("analyze_nicknames")
                       @@ [why |-> IF _is_at_all(msg) THEN "at_all" ELSE "duplicate"]
            /\ UNCHANGED <<nickname_cache, processed_messages, handled, inflight>>
       ELSE LET seen == processed_messages \cup {msg.id}
                new_nicknames == _extract_nickname_from_message(msg, msg.sender,
                                                                MentionedUsers(msg.ats))
            IN  /\ processed_messages' =
                       IF Cardinality(seen) > ProcessedLimit THEN {} ELSE seen
                /\ handled' = handled \cup {msg.id}
                /\ nickname_cache' = UpdateAllNicknames(nickname_cache, new_nicknames)
                /\ IF msg.sender # ""
                   THEN /\ inflight' = [inflight EXCEPT !["analyze_nicknames"] =
                                           Some([pc |-> "sender_info", msg |-> msg,
                                                 items |-> new_nicknames])]
                        /\ out' = Awaiting
                   ELSE /\ out' = Ran("analyze_nicknames", <<>>, new_nicknames,
                                       Guarded(FALSE), <<>>)
                        /\ UNCHANGED inflight
    /\ UNCHANGED <<gender_cache, written, user_alias_cache, scan_history,
                   group_members_cache, disk, running, now, boot, tasks>>

\* the lookup of line 692 returns or its wait_for gives up
analyze_resume(result) ==
    /\ inflight["analyze_nicknames"] # None
    /\ LET f == inflight["analyze_nicknames"][1]
           sender_info == _get_user_info_from_api(result)
       IN  /\ user_alias_cache' =
                  IF sender_info # None /\ sender_info # Raised
                  THEN UpdateAliasesFromInfo(user_alias_cache, sender_info[1], f.msg.sender)
                  ELSE user_alias_cache
           /\ out' = Ran("analyze_nicknames", <<>>, f.items,
                          Guarded(sender_info = Raised), <<>>)
    /\ inflight' = [inflight EXCEPT !["analyze_nicknames"] = None]
    /\ UNCHANGED <<gender_cache, written, nickname_cache, scan_history,
                   processed_messages, handled, group_members_cache, disk, running, now,
                   boot, tasks>>

\* one call of _update_user_alias(alias, user_id), as the handlers and the
\* scans make it for a nickname or a group card
UpdateUserAlias(alias, user_id) ==
    /\ running
    /\ user_alias_cache' = _update_user_alias(user_alias_cache, alias, user_id)
    /\ out' = Ran("_update_user_alias", <<>>, <<>>, Guarded(FALSE), <<>>)
               @@ [alias |-> alias, user |-> user_id,
                   before |-> AliasIds(user_alias_cache, alias)]
    /\ UNCHANGED <<gender_cache, written, nickname_cache, scan_history, processed_messages,
                   handled, group_members_cache, disk, running, now, boot, tasks, inflight>>

\* the number of entries of gc whose gender is g
CountGender(gc, g) == Cardinality({u \in DOMAIN gc : gc[u].gender = g})

\* @filter.command("gender_stats") show_stats(event): the numbers of the reply
show_stats ==
    /\ running
    /\ LET total_gender == Cardinality(DOMAIN gender_cache)
           male_count == CountGender(gender_cache, "nan")
           female_count == CountGender(gender_cache, "nv")
       IN  out' = Ran("show_stats", <<>>,
                      <<total_gender, male_count, female_count,
                        total_gender - male_count - female_count,
                        Cardinality(DOMAIN nickname_cache), Len(user_alias_cache)>>,
                      Guarded(FALSE), <<>>)
    /\ UNCHANGED <<gender_cache, written, nickname_cache, user_alias_cache, scan_history,
                   processed_messages, handled, group_members_cache, disk, running, now,
                   boot, tasks, inflight>>

\* the configured daily_scan_time "03:00", in minutes after midnight
daily_scan_time == 3 * 60

MinutesPerDay == 24 * 60

\* lines 145-150 of _daily_group_scan: a date is the reading of datetime.now(),
\* [day, days_in_month, minute] with minute counted from midnight.  Today's
\* scan time is over when next_scan <= now; next_scan has second 0, so it is
\* over from the first second of its minute
ScanTimePassed(date) == daily_scan_time <= date.minute

\* replace(day=day + 1) raises ValueError for a day the month does not have
NextScanRaises(date) == ScanTimePassed(date) /\ date.day + 1 > date.days_in_month

\* next_scan and wait_seconds (lines 146-153) when nothing raises: the day of
\* the month, and the wait in minutes
NextScan(date) ==
    IF ScanTimePassed(date)
    THEN [day |-> date.day + 1, next_month |-> FALSE,
          wait |-> MinutesPerDay + daily_scan_time - date.minute]
    ELSE [day |-> date.day, next_month |-> FALSE,
          wait |-> daily_scan_time - date.minute]

_scan_all_groups(answer) == ScanAllGroupsIn(answer, NoRound)

\* one round of the loop of _daily_group_scan(): the wait, then the scan
_daily_group_scan(date, answer) ==
    IF NextScanRaises(date)
    THEN /\ "_daily_group_scan" \in tasks
         /\ out' = Ran("_daily_group_scan", <<>>, <<>>, Guarded(TRUE), <<>>)
                    @@ [date |-> Some(date), scheduled |-> None]
         /\ UNCHANGED <<gender_cache, written, nickname_cache, user_alias_cache,
                        scan_history, processed_messages, handled, group_members_cache,
                        disk, running, now, boot, tasks, inflight>>
    ELSE ScanAllGroupsIn(answer, [date |-> Some(date), scheduled |-> Some(NextScan(date))])

-----------------------------------------------------------------------------
(* Life cycle, background tasks and environment *)

\* __init__(): the four caches are loaded from their files
Startup ==
    /\ ~running
    /\ LET g == _load_cache(disk["gender_cache"])
           n == _load_cache(disk["nickname_cache"])
           a == _load_cache(disk["user_alias"])
           h == _load_cache(disk["scan_history"])
           raised == g.raised \/ n.raised \/ a.raised \/ h.raised
       IN  /\ gender_cache' = g.ret
           /\ nickname_cache' = n.ret
           /\ user_alias_cache' = a.ret
           /\ scan_history' = h.ret
           /\ running' = ~raised
           /\ tasks' = IF raised THEN tasks ELSE BackgroundTasks
           /\ out' = [op |-> "__init__", skipped |-> FALSE, reports |-> <<>>,
                      items |-> <<>>, raised |-> raised,
                      caught |-> g.logged \/ n.logged \/ a.logged \/ h.logged,
                      lines |-> <<>>,
                      logged |-> g.logged \/ n.logged \/ a.logged \/ h.logged]
    /\ processed_messages' = {}
    /\ handled' = {}
    /\ group_members_cache' = EmptyDict
    /\ UNCHANGED <<written, disk, now, boot, inflight>>

\* terminate(): a last save; the tasks of __init__ are left as they are
terminate(ok) ==
    /\ running
    /\ disk' = _save_cache(disk, gender_cache, nickname_cache, user_alias_cache,
                           scan_history, ok)
    /\ running' = FALSE
    /\ out' = Skipped("terminate")
    /\ UNCHANGED <<gender_cache, written, nickname_cache, user_alias_cache, scan_history,
                   processed_messages, handled, group_members_cache, now, boot, tasks,
                   inflight>>

\* one round of _periodic_cache_save(): the sleep, then _save_cache(), whose
\* try/except (108-119) keeps a failed write inside it; an exception that
\* left it would end the task, the loop having no handler of its own
_periodic_cache_save(ok) ==
    /\ "_periodic_cache_save" \in tasks
    /\ disk' = _save_cache(disk, gender_cache, nickname_cache, user_alias_cache,
                           scan_history, ok)
    /\ LET outcome == Guarded(~ok)
       IN  /\ out' = Ran("_periodic_cache_save", <<>>, <<>>, outcome, <<>>)
           /\ tasks' = IF outcome.raised THEN tasks \ {"_periodic_cache_save"}
                       ELSE tasks
    /\ UNCHANGED <<gender_cache, written, nickname_cache, user_alias_cache, scan_history,
                   processed_messages, handled, group_members_cache, running, now, boot,
                   inflight>>

\* one round of _periodic_group_members_update()
_periodic_group_members_update ==
    /\ "_periodic_group_members_update" \in tasks
    /\ group_members_cache' = EmptyDict
    /\ out' = Skipped("_periodic_group_members_update")
    /\ UNCHANGED <<gender_cache, written, nickname_cache, user_alias_cache, scan_history,
                   processed_messages, handled, disk, running, now, boot, tasks,
                   inflight>>

\* the clock values the model samples: 0, the seconds around the expiry time,
\* and twice the expiry time
ExpireSeconds == cache_expire_days * 24 * 60 * 60

Times ==
    {0} \cup ((ExpireSeconds - MaxSkew)..(ExpireSeconds + MaxSkew)) \cup {2 * ExpireSeconds}

\* time passes between two operations
Tick(t) ==
    /\ t > now
    /\ now' = t
    /\ UNCHANGED <<gender_cache, written, nickname_cache, user_alias_cache, scan_history,
                   processed_messages, handled, group_members_cache, disk, running,
                   boot, tasks, inflight, out>>

\* while the plugin is down a cache file is removed or damaged
DamageFile(f, kind) ==
    /\ ~running
    /\ disk[f].kind # kind
    /\ disk' = [disk EXCEPT ![f] = [kind |-> kind, content |-> EmptyDict]]
    /\ UNCHANGED <<gender_cache, written, nickname_cache, user_alias_cache, scan_history,
                   processed_messages, handled, group_members_cache, running, now, boot,
                   tasks, inflight, out>>

\* the process ends with the machine and a new one starts on a machine whose
\* monotonic clock, the one asyncio.get_event_loop().time() reads, begins
\* again at 0; the model follows one such change
Reboot ==
    /\ ~running
    /\ boot = 0
    /\ now > 0
    /\ boot' = boot + now
    /\ now' = 0
    /\ tasks' = {}
    /\ inflight' = [h \in Handlers |-> None]
    /\ UNCHANGED <<gender_cache, written, nickname_cache, user_alias_cache, scan_history,
                   processed_messages, handled, group_members_cache, disk, running, out>>

-----------------------------------------------------------------------------
(* Inputs *)

NoText == <<>>

Info(sex) == Some([sex |-> sex, nickname |-> NoText, card |-> NoText])

\* an outcome of call_action for one user
Result(kind, sex) ==
    [kind |-> kind, data |-> [sex |-> sex, nickname |-> NoText, card |-> NoText]]

Member(user_id, sex) ==
    [user_id |-> user_id, sex |-> sex, nickname |-> NoText, card |-> NoText]

Msg(id, sender, group, ats, at_pos, found) ==
    [id |-> id, sender |-> sender, sender_name |-> NoText, group |-> group,
     ats |-> ats, at_pos |-> at_pos, found |-> found, mentions |-> {}]

Max == <<"M", "a", "x">>

Bo == <<"B", "o">>

PaddedBo == <<" ", "B", "o">>

\* the id of the next message: ids are given out in order, at most MaxMsgs
NewIds == {id \in 1..MaxMsgs : id = Cardinality(processed_messages) + 1}

\* what u1 says about itself (patterns 1 and 3), alone, to u2 or to everyone
SelfFound ==
    { <<>>, << <<1, Max>> >>, << <<1, Bo>> >>, << <<3, PaddedBo>> >>,
      << <<1, Max>>, <<3, Bo>> >> }

\* how u2 addresses u1 (patterns 4 and 5)
OtherFound == { << <<5, Max>> >>, << <<5, PaddedBo>> >>, << <<4, Bo>>, <<5, Bo>> >> }

\* the messages analyze_nicknames sees
NickMsgs ==
    { Msg(id, "u1", None, a, 0, f) :
        id \in NewIds, a \in {<<>>, <<"u2">>, <<"all">>}, f \in SelfFound }
    \cup { Msg(id, "u2", None, <<"u1">>, p, f) :
             id \in NewIds, p \in {0, 7}, f \in OtherFound }
    \cup { Msg(id, "u2", None, <<>>, 0, << <<5, Max>> >>) : id \in NewIds }
    \cup { Msg(id, "u1", None, <<>>, 0, << <<1, Max>> >>) : id \in processed_messages }

\* the members the platform lists for group g1
ScanList == <<Member("u1", "male"), Member("u2", "unknown")>>

\* the requests modify_llm_prompt sees
PromptMsgs ==
    { Msg(1, s, None, a, 0, <<>>) : s \in Users, a \in {<<>>, <<"u2">>, <<"all">>} }

-----------------------------------------------------------------------------
(* Specifications *)

Init ==
    /\ gender_cache = EmptyDict
    /\ nickname_cache = EmptyDict
    /\ user_alias_cache = <<>>
    /\ scan_history = None
    /\ processed_messages = {}
    /\ group_members_cache = EmptyDict
    /\ disk = [f \in Files |-> MissingFile]
    /\ running = TRUE
    /\ now = 0
    /\ boot = 0
    /\ written = [u \in Users |-> 0]
    /\ handled = {}
    /\ tasks = BackgroundTasks
    /\ inflight = [h \in Handlers |-> None]
    /\ out = Skipped("__init__")

\* nickname learning: the handlers that write the nickname lists, at one instant
Next ==
    \/ \E msg \in NickMsgs : analyze_nicknames(msg, None)
    \/ \E msg \in PromptMsgs, api \in [Users -> {None, Info("male")}] :
           modify_llm_prompt(msg, api, None, {})
    \/ \E answer \in {None, Some(ScanList)} :
           manual_scan(Msg(1, "u1", Some("g1"), <<>>, 0, <<>>), answer, TRUE)
    \/ _scan_all_groups(Some(<<[group_id |-> "g1", kind |-> "ok", data |-> ScanList]>>))

Spec == Init /\ [][Next]_vars

\* the outcomes of a lookup: no answer in time, an error, male (capitalised),
\* unknown, a record without the 'sex' key
TTLResults ==
    { Result("timeout", ""), Result("raise", ""), Result("ok", "Male"),
      Result("ok", "unknown"), Result("ok", "absent") }

\* what _get_user_info_from_api returns for them
ApiInfos == {_get_user_info_from_api(result) : result \in TTLResults}

\* the requests and commands of the expiry specification
GenderMsgs == { Msg(1, "u1", None, a, 0, <<>>) : a \in {<<>>, <<"u2">>} }

\* the answers of the API to the calls a handler can make for msg
ApiAnswers(msg) ==
    { api \in [Users -> ApiInfos] :
        \A u \in Users : (u # msg.sender /\ ~InSeq(u, msg.ats)) => api[u] = None }

\* expiry of the gender cache: the clock advances between the operations
NextTTL ==
    \/ \E t \in Times : Tick(t)
    \/ \E msg \in GenderMsgs : \E api \in ApiAnswers(msg) :
           modify_llm_prompt(msg, api, None, {})
    \/ \E msg \in GenderMsgs : \E api \in ApiAnswers(msg) : check_gender(msg, api)

SpecTTL == Init /\ [][NextTTL]_vars

\* the same when the platform answers every lookup with a gender
NextAnswering ==
    \/ \E t \in Times : Tick(t)
    \/ \E msg \in GenderMsgs :
           modify_llm_prompt(msg, [u \in Users |-> Info("Male")], None, {})
    \/ \E msg \in GenderMsgs : check_gender(msg, [u \in Users |-> Info("Male")])

SpecAnswering == Init /\ [][NextAnswering]_vars

\* the members the platform lists when the plugin is restarted
LoadScanList == <<Member("u1", "FEMALE"), Member("u2", "unknown")>>

InitLoad ==
    /\ gender_cache = EmptyDict
    /\ nickname_cache = EmptyDict
    /\ user_alias_cache = <<>>
    /\ scan_history = None
    /\ processed_messages = {}
    /\ group_members_cache = EmptyDict
    /\ disk = [f \in Files |-> MissingFile]
    /\ running = FALSE
    /\ now = 0
    /\ boot = 0
    /\ written = [u \in Users |-> 0]
    /\ handled = {}
    /\ tasks = {}
    /\ inflight = [h \in Handlers |-> None]
    /\ out = Skipped("terminate")

\* start, scan, save, stop, and damage to the files while stopped
NextLoad ==
    \/ Startup
    \/ _scan_all_groups(Some(<<[group_id |-> "g1", kind |-> "ok", data |-> LoadScanList]>>))
    \/ \E ok \in BOOLEAN : _periodic_cache_save(ok)
    \/ \E ok \in BOOLEAN : terminate(ok)
    \/ \E f \in Files, kind \in {"missing", "corrupt", "unreadable"} : DamageFile(f, kind)

SpecLoad == InitLoad /\ [][NextLoad]_vars

\* the outcomes when the platform fails: an answer with a gender, an answer
\* whose 'sex' is null, no answer in time, an error
FaultResults ==
    { Result("ok", "Male"), Result("ok", "null"), Result("timeout", ""),
      Result("raise", "") }

\* what the handlers get from _get_user_info_from_api for msg
FaultAnswers(msg) ==
    { [u \in Users |-> _get_user_info_from_api(raw[u])] :
        raw \in { f \in [Users -> FaultResults] :
                    \A u \in Users :
                        (u # msg.sender /\ ~InSeq(u, msg.ats))
                        => f[u] = Result("timeout", "") } }

\* the member lists of two groups: g1 has a member whose 'sex' is null
FaultGroups ==
    { << [group_id |-> "g1", kind |-> k, data |-> <<Member("u1", s)>>],
         [group_id |-> "g2", kind |-> "ok", data |-> <<Member("u2", "male")>>] >> :
        k \in {"ok", "raise", "none"}, s \in {"male", "null"} }

\* the wall clock when _daily_group_scan computes its wait
Dates ==
    { [day |-> 30, days_in_month |-> 31, minute |-> 12 * 60],
      [day |-> 31, days_in_month |-> 31, minute |-> 12 * 60],
      [day |-> 31, days_in_month |-> 31, minute |-> 60] }

\* every handler and task, with a platform that fails and answers badly and
\* files that cannot be written
NextFaults ==
    \/ \E msg \in GenderMsgs : \E api \in FaultAnswers(msg) :
           modify_llm_prompt(msg, api, None, {})
    \/ \E msg \in GenderMsgs : \E api \in FaultAnswers(msg) : check_gender(msg, api)
    \/ \E info \in FaultAnswers(Msg(1, "u1", None, <<>>, 0, <<>>)) :
           analyze_nicknames(Msg(1, "u1", None, <<>>, 0, << <<1, Max>> >>), info["u1"])
    \/ \E s \in {"male", "null"} :
           manual_scan(Msg(1, "u1", Some("g1"), <<>>, 0, <<>>),
                       Some(<<Member("u2", s), Member("u1", "unknown")>>), FALSE)
    \/ show_stats
    \/ \E date \in Dates, groups \in FaultGroups : _daily_group_scan(date, Some(groups))
    \/ _periodic_cache_save(FALSE)

SpecFaults == Init /\ [][NextFaults]_vars

\* the requests whose handler the model follows step by step: from u1, in
\* private or in group g1, alone or mentioning u2
TaskMsgs ==
    { Msg(1, "u1", g, a, 0, <<>>) : g \in {None, Some("g1")}, a \in {<<>>, <<"u2">>} }

\* handlers interleaved at their awaits with the scans and the clock
NextTasks ==
    \/ Tick(2 * ExpireSeconds)
    \/ \E msg \in TaskMsgs : prompt_begin(msg, {})
    \/ \E answer \in {None, Some(ScanList)} : prompt_members(answer)
    \/ \E result \in {Result("timeout", ""), Result("ok", "FEMALE")} :
           prompt_lookup(result)
    \/ manual_scan(Msg(1, "u1", Some("g1"), <<>>, 0, <<>>), Some(ScanList), TRUE)
    \/ _scan_all_groups(Some(<<[group_id |-> "g1", kind |-> "ok", data |-> ScanList]>>))

SpecTasks == Init /\ [][NextTasks]_vars

\* the messages analyze_nicknames sees while the platform is silent
SilentMsgs ==
    { Msg(id, "u1", None, <<>>, 0, << <<1, n>> >>) : id \in NewIds, n \in {Max, Bo} }

\* a platform that never answers: a call under wait_for ends with its
\* timeout, a call without one never returns
NextSilent ==
    \/ \E msg \in TaskMsgs : prompt_begin(msg, {})
    \/ prompt_lookup(Result("timeout", ""))
    \/ \E msg \in SilentMsgs : analyze_begin(msg)
    \/ analyze_resume(Result("timeout", ""))

\* the event loop fires every timeout that is due
SpecSilent ==
    /\ Init
    /\ [][NextSilent]_vars
    /\ WF_vars(prompt_lookup(Result("timeout", "")))
    /\ WF_vars(analyze_resume(Result("timeout", "")))

\* captures of the patterns: two names, a name between blanks, blanks only,
\* a single letter
PaddedA == <<" ", "a", " ">>

Blanks == <<" ", " ">>

Captures == {Max, Bo, PaddedA, Blanks, <<"M">>}

\* what re.findall gives for a message: nothing, one capture of a pattern of
\* either kind, or a self-declaration together with a form of address
ExtractFound ==
    { <<>>, << <<1, Max>>, <<5, Bo>> >> }
    \cup { << <<k, c>> >> : k \in {1, 4, 5}, c \in Captures }

\* the first message of a chat, with no, one or two users mentioned and the
\* '@' absent (find gives -1), at the start or further in
ExtractMsgs ==
    { Msg(1, s, None, a, p, f) :
        s \in Users,
        a \in {<<>>, <<"u1">>, <<"u2">>, <<"u1", "u2">>, <<"u2", "u1">>, <<"all">>},
        p \in {-1, 0, 7},
        f \in ExtractFound }

\* one message goes through analyze_nicknames
NextExtract ==
    \/ \E msg \in ExtractMsgs : analyze_begin(msg)
    \/ analyze_resume(Result("timeout", ""))

SpecExtract == Init /\ [][NextExtract]_vars

\* the request and the answers of the restart specification
RestartMsg == Msg(1, "u1", None, <<>>, 0, <<>>)

RestartAnswers == { [u \in Users |-> info] : info \in {None, Info("Male")} }

\* the plugin serves requests, is torn down and started again, on the same
\* machine or after a reboot, while time passes
NextRestart ==
    \/ \E t \in {ExpireSeconds + 1, 2 * ExpireSeconds} : Tick(t)
    \/ \E api \in RestartAnswers : modify_llm_prompt(RestartMsg, api, None, {})
    \/ terminate(TRUE)
    \/ Reboot
    \/ Startup

SpecRestart == Init /\ [][NextRestart]_vars

\* messages of u1 with and without an At component for everyone, in each of
\* its three spellings, alone or after a mention of u2
AtAllMsgs ==
    { Msg(id, "u1", None, a, 0, f) :
        id \in NewIds,
        a \in {<<>>, <<"u2">>, <<"all">>, <<"0">>, <<"u2", "quanti">>},
        f \in {<<>>, << <<1, Max>> >>, << <<5, Bo>> >>} }

\* the records of the sender: none, or one with a nickname
AtAllInfos == {None, Some([sex |-> "male", nickname |-> Max, card |-> NoText])}

\* both message handlers on messages with and without an @-all
NextAtAll ==
    \/ \E msg \in AtAllMsgs, info \in AtAllInfos : analyze_nicknames(msg, info)
    \/ \E msg \in AtAllMsgs, info \in AtAllInfos :
           modify_llm_prompt(msg, [u \in Users |-> info], None, {})

SpecAtAll == Init /\ [][NextAtAll]_vars

\* the plugin after ProcessedLimit - 1 messages from which it learned nothing
InitFlood ==
    /\ gender_cache = EmptyDict
    /\ nickname_cache = EmptyDict
    /\ user_alias_cache = <<>>
    /\ scan_history = None
    /\ processed_messages = 1..(ProcessedLimit - 1)
    /\ group_members_cache = EmptyDict
    /\ disk = [f \in Files |-> MissingFile]
    /\ running = TRUE
    /\ now = 0
    /\ boot = 0
    /\ written = [u \in Users |-> 0]
    /\ handled = 1..(ProcessedLimit - 1)
    /\ tasks = BackgroundTasks
    /\ inflight = [h \in Handlers |-> None]
    /\ out = Skipped("analyze_nicknames") @@ [why |-> "duplicate"]

\* the ids of the messages delivered next: the next new id, up to one past
\* the limit, or again the first, the last-but-one or the last id worked on
FloodIds ==
    {id \in {ProcessedLimit, ProcessedLimit + 1} : id = Cardinality(handled) + 1}
    \cup ({1, ProcessedLimit, ProcessedLimit + 1} \cap handled)

FloodMsgs ==
    { Msg(id, "u1", None, <<>>, 0, f) :
        id \in FloodIds, f \in {<<>>, << <<1, Max>> >>, << <<1, Bo>> >>} }

\* a long conversation: messages arrive, some of them twice
NextFlood == \E msg \in FloodMsgs, info \in AtAllInfos : analyze_nicknames(msg, info)

SpecFlood == InitFlood /\ [][NextFlood]_vars

\* twelve users that carry the same name one after the other
AliasUsers ==
    <<"u1", "u2", "u3", "u4", "u5", "u6", "u7", "u8", "u9", "u10", "u11", "u12">>

\* how many of them are recorded under some alias: the largest k such that
\* AliasUsers[k] is
HighestAliasUser ==
    LET known == {k \in 1..Len(AliasUsers) :
                     \E i \in 1..Len(user_alias_cache) :
                         InSeq(AliasUsers[k], user_alias_cache[i].ids)}
    IN  IF known = {} THEN 0 ELSE CHOOSE k \in known : \A j \in known : j <= k

\* the calls: under the name Max the next user, the newest again or the first
\* again; u1 and u2 under the name Bo; u1 under a name of one letter and under
\* the empty name
AliasCalls ==
    { <<Max, AliasUsers[k]>> :
        k \in {1, HighestAliasUser, Min(HighestAliasUser + 1, Len(AliasUsers))} \ {0} }
    \cup { <<Bo, "u1">>, <<Bo, "u2">>, << <<"M">>, "u1" >>, <<NoText, "u1">> }

NextAlias == \E call \in AliasCalls : UpdateUserAlias(call[1], call[2])

SpecAlias == Init /\ [][NextAlias]_vars

\* readings of the wall clock: the last two days of a month of 31 days and
\* the last day of February, at midnight, around the scan time and in the
\* last minute of the day
DailyDates ==
    { [day |-> d[1], days_in_month |-> d[2], minute |-> m] :
        d \in {<<30, 31>>, <<31, 31>>, <<28, 28>>},
        m \in {0, daily_scan_time - 1, daily_scan_time, daily_scan_time + 1,
               MinutesPerDay - 1} }

\* the rounds of the daily task, with a platform that answers or not
NextDaily ==
    \E date \in DailyDates, answer \in {None} \cup {Some(groups) : groups \in FaultGroups} :
        _daily_group_scan(date, answer)

SpecDaily == Init /\ [][NextDaily]_vars

\* the 'sex' the platform has of a user
StoreSexes == {"male", "female", "unknown"}

\* the records the platform has of a user: none, or one with a 'sex'
StoreInfos ==
    {None} \cup { Some([sex |-> sex, nickname |-> NoText, card |-> NoText]) :
                    sex \in StoreSexes }

\* the member lists of group g1: u1 alone, or u1 after u2
StoreMembers ==
    { <<Member("u1", sex)>> : sex \in StoreSexes }
    \cup { <<Member("u2", "female"), Member("u1", "unknown")>> }

\* the four writers of gender_cache, before and after the entries expire
NextStore ==
    \/ Tick(ExpireSeconds + 1)
    \/ \E info \in StoreInfos :
           modify_llm_prompt(RestartMsg, [u \in Users |-> info], None, {})
    \/ \E info \in StoreInfos : check_gender(RestartMsg, [u \in Users |-> info])
    \/ \E members \in StoreMembers :
           manual_scan(Msg(1, "u1", Some("g1"), <<>>, 0, <<>>), Some(members), FALSE)
    \/ \E members \in StoreMembers :
           _scan_all_groups(Some(<<[group_id |-> "g1", kind |-> "ok", data |-> members]>>))

SpecStore == Init /\ [][NextStore]_vars

\* what u1 says about itself in the messages of the interleaving
InterleaveMsgs ==
    { Msg(id, "u1", None, <<>>, 0, f) :
        id \in NewIds, f \in {<< <<1, Max>> >>, << <<3, Bo>> >>, << <<1, PaddedA>> >>} }

\* both message handlers, each suspended at its awaits, next to a manual scan
NextInterleave ==
    \/ \E msg \in InterleaveMsgs : analyze_begin(msg)
    \/ \E result \in {Result("timeout", ""), Result("ok", "FEMALE")} :
           analyze_resume(result)
    \/ \E msg \in TaskMsgs : prompt_begin(msg, {})
    \/ \E answer \in {None, Some(ScanList)} : prompt_members(answer)
    \/ \E result \in {Result("timeout", ""), Result("ok", "FEMALE")} :
           prompt_lookup(result)
    \/ manual_scan(Msg(1, "u1", Some("g1"), <<>>, 0, <<>>), Some(ScanList), TRUE)

SpecInterleave == Init /\ [][NextInterleave]_vars

\* the handlers change the caches while the save task makes its rounds, with
\* writes that succeed or fail
SaveMsgs ==
    { Msg(id, "u1", None, a, 0, f) :
        id \in NewIds, a \in {<<>>, <<"u2">>}, f \in {<<>>, << <<1, Max>> >>} }

NextSave ==
    \/ \E msg \in SaveMsgs, info \in AtAllInfos : analyze_nicknames(msg, info)
    \/ \E msg \in SaveMsgs, info \in AtAllInfos :
           modify_llm_prompt(msg, [u \in Users |-> info], None, {})
    \/ \E ok \in BOOLEAN : _periodic_cache_save(ok)

\* the event loop wakes the task when its sleep of 300 seconds is over (123)
SpecSave ==
    /\ Init
    /\ [][NextSave]_vars
    /\ WF_vars(\E ok \in BOOLEAN : _periodic_cache_save(ok))

-----------------------------------------------------------------------------
(* Properties of the nickname lists (specification Spec) *)

NicknamesOf(u) == nickname_cache[u].nicknames

TextsOf(l) == {l[i][1] : i \in 1..Len(l)}

LowestPriority(l) == CHOOSE p \in {l[i][2] : i \in 1..Len(l)} :
                         \A i \in 1..Len(l) : l[i][2] >= p

LastItem == out.items[Len(out.items)]

\* C1: after any sequence of analyze_nicknames, modify_llm_prompt, manual_scan
\* and _scan_all_groups steps, no user's nickname list is longer than
\* max_nicknames.
C1_CapacityBound ==
    \A u \in DOMAIN nickname_cache : Len(NicknamesOf(u)) <= max_nicknames

\* C1 witness: analyze_nicknames has just seen a nickname that is not in the
\* list of its target, and that list is full.
C1_Witness ==
    /\ out.op = "analyze_nicknames"
    /\ out.items # <<>>
    /\ Len(NicknamesOf(LastItem[3])) = max_nicknames
    /\ LastItem[1] \notin TextsOf(NicknamesOf(LastItem[3]))

\* C2 (as claimed): when analyze_nicknames learns one new nickname for a user
\* whose list is full, and its priority is higher than the lowest priority in
\* the list, the new nickname is in the list afterwards and a lowest-priority
\* entry has left it.
C2_EvictsLowest ==
    [][ ( /\ out'.op = "analyze_nicknames"
          /\ Len(out'.items) = 1
          /\ out'.items[1][3] \in DOMAIN nickname_cache
          /\ Len(NicknamesOf(out'.items[1][3])) = max_nicknames
          /\ out'.items[1][1] \notin TextsOf(NicknamesOf(out'.items[1][3]))
          /\ out'.items[1][2] > LowestPriority(NicknamesOf(out'.items[1][3])) )
        => ( /\ out'.items[1][1] \in TextsOf(nickname_cache'[out'.items[1][3]].nicknames)
             /\ Len(nickname_cache'[out'.items[1][3]].nicknames) = max_nicknames ) ]_vars

\* C3: for every user with a non-empty list, 'selected' is the text of the
\* first entry and no entry has a higher priority than the first; for a user
\* with an empty list 'selected' is None.
C3_SelectedIsHead ==
    \A u \in DOMAIN nickname_cache :
        LET l == NicknamesOf(u)
        IN  IF l = <<>>
            THEN nickname_cache[u].selected = None
            ELSE /\ nickname_cache[u].selected = Some(l[1][1])
                 /\ \A i \in 1..Len(l) : l[i][2] <= l[1][2]

\* C3 witness: a nickname learned after the default one has moved to the head
\* of a list of two and is the selected one.
C3_Witness ==
    /\ out.op = "analyze_nicknames"
    /\ out.items # <<>>
    /\ Len(NicknamesOf(LastItem[3])) = 2
    /\ NicknamesOf(LastItem[3])[1] = <<LastItem[1], LastItem[2]>>
    /\ NicknamesOf(LastItem[3])[2][2] = 1
    /\ nickname_cache[LastItem[3]].selected = Some(LastItem[1])

\* C4 (as claimed): when the nickname seen last has the same priority as the
\* head of its list, the nickname seen last is the selected one.
C4_RecentWinsTie ==
    (out.op = "analyze_nicknames" /\ out.items # <<>>)
    => LET l == NicknamesOf(LastItem[3])
       IN  (\E i \in 1..Len(l) : l[i][1] = LastItem[1] /\ l[i][2] = l[1][2])
           => nickname_cache[LastItem[3]].selected = Some(LastItem[1])

\* the texts and priorities an observation can carry
ObservedTexts == {Max, Bo}

Priorities == {1, 2, 3}

PriorityIn(l, n) == l[FindNickname(l, n)][2]

\* C5: no list holds a text twice; observing a nickname that is present keeps
\* one entry whose priority is the maximum of the old and the new one; and
\* applying an observation twice gives the same list as applying it once.
C5_MergeIdempotent ==
    /\ \A u \in DOMAIN nickname_cache :
           \A i, j \in 1..Len(NicknamesOf(u)) :
               NicknamesOf(u)[i][1] = NicknamesOf(u)[j][1] => i = j
    /\ \A u \in Users, n \in ObservedTexts, p \in Priorities :
           LET once == UpdateNicknames(nickname_cache, u, n, p)
               twice == UpdateNicknames(once, u, n, p)
           IN  /\ twice = once
               /\ (u \in DOMAIN nickname_cache /\ n \in TextsOf(NicknamesOf(u)))
                  => /\ Len(once[u].nicknames) = Len(NicknamesOf(u))
                     /\ PriorityIn(once[u].nicknames, n)
                            = IF p > PriorityIn(NicknamesOf(u), n)
                              THEN p ELSE PriorityIn(NicknamesOf(u), n)

\* C5 witness: one message has given the same nickname twice, the second time
\* to a list that already held it, and the list holds it once.
C5_Witness ==
    /\ out.op = "analyze_nicknames"
    /\ Len(out.items) = 2
    /\ out.items[1] = out.items[2]
    /\ Cardinality({i \in 1..Len(NicknamesOf(LastItem[3])) :
                       NicknamesOf(LastItem[3])[i][1] = LastItem[1]}) = 1

-----------------------------------------------------------------------------
(* Properties of the gender cache (specification SpecTTL) *)

Reports == {out.reports[i] : i \in 1..Len(out.reports)}

\* C6 (as claimed): a gender value served from the cache (not re-derived from
\* the answer of the platform in the same operation) is not older than the
\* expiry time.
C6_NeverServesStale ==
    \A r \in Reports :
        (r.gender # "weizhi" /\ r.fetched = None) => (r.had /\ r.age <= ExpireSeconds)

\* C7: in modify_llm_prompt an entry that is one second older than the expiry
\* time triggers the lookup, and an entry one second younger does not.
C7_TTLBoundary ==
    out.op = "modify_llm_prompt"
    => \A r \in Reports :
           r.had => /\ (r.age = ExpireSeconds + 1 => r.called)
                    /\ (r.age = ExpireSeconds - 1 => ~r.called)

\* C7 witness: one request met an entry one second too old, which it
\* refreshed, and an entry one second younger than the expiry time, which it
\* served without a lookup.
C7_Witness ==
    /\ out.op = "modify_llm_prompt"
    /\ \E r \in Reports : r.had /\ r.age = ExpireSeconds + 1 /\ r.called /\ r.stored = r.at
    /\ \E r \in Reports : r.had /\ r.age = ExpireSeconds - 1 /\ ~r.called /\ r.gender = "nan"

\* C8 (as claimed): in modify_llm_prompt the cached gender is served without
\* a lookup exactly when its age is below the expiry time; otherwise the
\* lookup is made and its result stored with update_time = now.
C8_FreshIffYounger ==
    out.op = "modify_llm_prompt"
    => \A r \in Reports :
           r.had => /\ (~r.called <=> r.age < ExpireSeconds)
                    /\ (r.called => r.stored = r.at)

\* C8 (amended): the cached gender is served without a lookup exactly when
\* its age is at most the expiry time; when it is older the lookup is made,
\* and if it gives male or female that is stored with update_time = now and
\* served, otherwise the old entry stays as it was and is served.
C8_FreshIffNotOlder ==
    out.op = "modify_llm_prompt"
    => \A r \in Reports :
           r.had => /\ (~r.called <=> r.age <= ExpireSeconds)
                    /\ (r.called /\ r.fetched # None)
                       => (r.stored = r.at /\ r.gender = r.fetched[1])
                    /\ (r.called /\ r.fetched = None) => r.stored = r.at - r.age
                    /\ ~r.called => r.stored = r.at - r.age

\* C8 witness: an entry whose age equals the expiry time was served without
\* a lookup.
C8_Witness ==
    /\ out.op = "modify_llm_prompt"
    /\ \E r \in Reports : r.had /\ r.age = ExpireSeconds /\ ~r.called /\ r.gender = "nan"

\* C9 (as claimed): when there is no entry for a user and the lookup gives no
\* gender, 'weizhi' is reported and an entry with gender 'weizhi' and
\* update_time = now is stored.
C9_CachesUnknown ==
    out.op \in {"modify_llm_prompt", "check_gender"}
    => \A r \in Reports :
           (~r.had /\ r.called /\ r.fetched = None)
           => /\ r.gender = "weizhi"
              /\ r.user \in DOMAIN gender_cache
              /\ gender_cache[r.user].gender = "weizhi"
              /\ gender_cache[r.user].update_time = r.at

\* C9 (amended): when there is no entry for a user and the lookup gives no
\* gender, 'weizhi' is reported and nothing is stored for that user, so the
\* next request asks the platform again.
C9_UnknownNotCached ==
    /\ out.op \in {"modify_llm_prompt", "check_gender"}
       => \A r \in Reports :
              (~r.had /\ r.called /\ r.fetched = None)
              => (r.gender = "weizhi" /\ r.user \notin DOMAIN gender_cache)
    /\ \A u \in Users : u \notin DOMAIN gender_cache => NeedsLookup(gender_cache, u, now)
    /\ \A u \in DOMAIN gender_cache : gender_cache[u].gender \in {"nan", "nv"}

\* C9 witness: a request for a user without an entry whose lookup failed.
C9_Witness ==
    /\ out.op = "modify_llm_prompt"
    /\ \E r \in Reports :
           /\ ~r.had /\ r.called /\ r.fetched = None /\ r.gender = "weizhi"
           /\ r.user \notin DOMAIN gender_cache

-----------------------------------------------------------------------------
(* Properties of start-up (specification SpecLoad) *)

CacheOf(f) ==
    IF f = "gender_cache" THEN gender_cache
    ELSE IF f = "nickname_cache" THEN nickname_cache
    ELSE IF f = "user_alias" THEN user_alias_cache
    ELSE scan_history

\* C10: _load_cache raises nothing and returns an empty mapping for a file
\* that is missing or does not hold valid JSON, so after __init__ the plugin
\* runs and the cache of every such file is empty.
C10_LoadFailsSoft ==
    out.op = "__init__"
    => /\ ~out.raised
       /\ running
       /\ \A f \in Files : disk[f].kind # "valid" => CacheOf(f) = EmptyDict
       /\ \A f \in Files : disk[f].kind = "valid" => CacheOf(f) = disk[f].content

\* C10 witness: the plugin has started with one file missing, one damaged
\* (which was logged) and one intact, whose content it holds.
C10_Witness ==
    /\ out.op = "__init__"
    /\ running
    /\ out.logged
    /\ disk["gender_cache"].kind = "corrupt"
    /\ disk["user_alias"].kind = "missing"
    /\ disk["nickname_cache"].kind = "valid"
    /\ nickname_cache # EmptyDict
    /\ gender_cache = EmptyDict

-----------------------------------------------------------------------------
(* Properties of failure handling (specification SpecFaults) *)

\* the handlers and background tasks the host runs
HostOps ==
    {"modify_llm_prompt", "analyze_nicknames", "manual_scan", "check_gender",
     "show_stats", "_daily_group_scan", "_scan_all_groups", "_periodic_cache_save"}

\* C11: no handler and no background task lets an exception leave it,
\* whatever the platform answers: failed and timed-out calls, records
\* without a gender and records whose gender is null.
C11_NothingEscapes ==
    out.op \in HostOps => ~out.raised

\* C11 witness: modify_llm_prompt has just caught the exception a record
\* with a null gender caused.
C11_Witness ==
    /\ out.op = "modify_llm_prompt"
    /\ out.caught
    /\ out.why = "detect"
    /\ ~out.raised

\* C12: when modify_llm_prompt runs (no @-all), the annotation has one line
\* for every participant, in order; a participant whose lookup timed out,
\* raised or gave a record without a gender is shown with the gender cached
\* before the request, or 'weizhi' when there was none.
C12_AnnotatesDespiteFailure ==
    (out.op = "modify_llm_prompt" /\ ~out.skipped)
    => /\ Len(out.lines) = Len(out.ids)
       /\ \A i \in 1..Len(out.ids) :
              /\ out.lines[i].user = out.ids[i]
              /\ (out.reports[i].called /\ out.reports[i].fetched = None)
                 => out.lines[i].gender = out.reports[i].cached

\* C12 witness: a request with two participants whose lookups both failed:
\* one had an expired entry and is shown with its gender, the other had no
\* entry and is shown as 'weizhi'.
C12_Witness ==
    /\ out.op = "modify_llm_prompt"
    /\ Len(out.lines) = 2
    /\ \E i, j \in 1..2 :
           /\ out.reports[i].called /\ out.reports[i].fetched = None
           /\ out.reports[i].had /\ out.lines[i].gender = "nan"
           /\ out.reports[j].called /\ out.reports[j].fetched = None
           /\ ~out.reports[j].had /\ out.lines[j].gender = "weizhi"

-----------------------------------------------------------------------------
(* Frame of the prompt handler (specification SpecTTL) *)

\* C13 (as claimed): a step of modify_llm_prompt leaves gender_cache,
\* nickname_cache and user_alias_cache as they were.
C13_PromptIsReadOnly ==
    [][ out'.op = "modify_llm_prompt"
        => UNCHANGED <<gender_cache, written, nickname_cache, user_alias_cache>> ]_vars

-----------------------------------------------------------------------------
(* Interleaving of the handlers (specification SpecTasks) *)

\* the gender entry of user u in cache gc, None when there is none
EntryOf(gc, u) == IF u \in DOMAIN gc THEN Some(gc[u]) ELSE None

\* C14 (as claimed): while modify_llm_prompt waits for the lookup it decided
\* to make for a user, no step of another task changes that user's entry of
\* gender_cache.
C14_LookupIsExclusive ==
    [][ ( /\ inflight["modify_llm_prompt"] # None
          /\ inflight["modify_llm_prompt"][1].pc = "lookup"
          /\ inflight' = inflight )
        => EntryOf(gender_cache', Head(inflight["modify_llm_prompt"][1].ids))
               = EntryOf(gender_cache, Head(inflight["modify_llm_prompt"][1].ids)) ]_vars

-----------------------------------------------------------------------------
(* Shutdown (specification SpecLoad) *)

\* what a round of a background task of __init__ leaves in out.op
BackgroundOps ==
    {"_periodic_cache_save", "_periodic_group_members_update", "_daily_group_scan",
     "_scan_all_groups"}

\* C15 (as claimed): once terminate has returned, no background task of the
\* plugin is alive and none runs a round or writes the cache files.
C15_TerminateStopsTasks ==
    [][ (~running /\ out.op = "terminate")
        => (tasks = {} /\ out'.op \notin BackgroundOps) ]_vars

-----------------------------------------------------------------------------
(* The bulk scan under failures (specification SpecFaults) *)

\* C16 (as claimed): a scan of all groups handles every well-formed member of
\* every group whose member list the platform gives, also when the call for
\* another group raises or another member's record is malformed.
C16_ScanSurvivesFailure ==
    out.op = "_scan_all_groups"
    => \A u \in out.listed : \E r \in Reports : r.user = u

-----------------------------------------------------------------------------
(* Termination of the handlers (specification SpecSilent) *)

\* C17 (as claimed): when the platform answers no call, every started
\* modify_llm_prompt and analyze_nicknames still returns.
C17_HandlersComplete ==
    \A h \in Handlers : (inflight[h] # None) ~> (inflight[h] = None)

-----------------------------------------------------------------------------
(* Extraction of nicknames from a message (specification SpecExtract) *)

\* the message analyze_nicknames is working on and what it extracted
Extracting == inflight["analyze_nicknames"] # None

ExtractedMsg == inflight["analyze_nicknames"][1].msg

ExtractedItems == inflight["analyze_nicknames"][1].items

\* the positions of the At components that name one user
SpecificAts(ats) == {i \in 1..Len(ats) : ats[i] \notin AtAllIds}

FirstSpecificAt(ats) ==
    ats[CHOOSE i \in SpecificAts(ats) : \A j \in SpecificAts(ats) : i <= j]

\* C18: a candidate of priority 2 comes only from a message that mentions a
\* specific user and is attributed to the first user mentioned; a candidate
\* of priority 3 is attributed to the sender.
C18_CandidateTargets ==
    Extracting
    => \A i \in 1..Len(ExtractedItems) :
           /\ ExtractedItems[i][2] \in {2, 3}
           /\ ExtractedItems[i][2] = 2
              => /\ SpecificAts(ExtractedMsg.ats) # {}
                 /\ ExtractedItems[i][3] = FirstSpecificAt(ExtractedMsg.ats)
           /\ ExtractedItems[i][2] = 3 => ExtractedItems[i][3] = ExtractedMsg.sender

\* C18 witness: u1 mentions u2 and then u1, declares a name for itself and
\* greets with another: the first goes to u1 with priority 3, the second to
\* u2 with priority 2.
C18_Witness ==
    /\ Extracting
    /\ ExtractedMsg.sender = "u1"
    /\ ExtractedMsg.ats = <<"u2", "u1">>
    /\ ExtractedItems = << <<Max, 3, "u1">>, <<Bo, 2, "u2">> >>
    /\ nickname_cache["u2"].selected = Some(Bo)

\* whether a text is trimmed and has an accepted length
WellFormedNickname(text) == Strip(text) = text /\ 2 <= Len(text) /\ Len(text) <= 5

\* C19 (as claimed): every candidate handed over by
\* _extract_nickname_from_message is trimmed and has 2 to 5 characters after
\* trimming, and so has every learned nickname in the lists.
C19_CandidatesWellFormed ==
    /\ Extracting
       => \A i \in 1..Len(ExtractedItems) : WellFormedNickname(ExtractedItems[i][1])
    /\ \A u \in DOMAIN nickname_cache :
           \A i \in 1..Len(NicknamesOf(u)) :
               NicknamesOf(u)[i][2] > 1 => WellFormedNickname(NicknamesOf(u)[i][1])

-----------------------------------------------------------------------------
(* The default form of address (specification SpecTTL) *)

\* the configured default nickname of a gender value
ConfiguredDefault(gender) ==
    IF gender = "nan" THEN default_nicknames.male
    ELSE IF gender = "nv" THEN default_nicknames.female
    ELSE default_nicknames.unknown

\* whether no nickname of user u was learned from a message
NothingLearned(u) ==
    u \in DOMAIN nickname_cache
    => \A i \in 1..Len(NicknamesOf(u)) : NicknamesOf(u)[i][2] <= 1

\* C20 (as claimed): in every annotation, a user for whom no nickname was
\* learned from messages is addressed with the configured default nickname
\* of the gender shown in the same line.
C20_DefaultFollowsGender ==
    out.op = "modify_llm_prompt"
    => \A i \in 1..Len(out.lines) :
           NothingLearned(out.lines[i].user)
           => out.lines[i].nickname = Some(ConfiguredDefault(out.lines[i].gender))

-----------------------------------------------------------------------------
(* The life of a record across restarts (specification SpecRestart) *)

\* the wall-clock age of the gender entry of user u
ElapsedSinceWrite(u) == boot + now - written[u]

\* C21 (as claimed): a record older than the retention window is removed, by
\* garbage collection or by the purge at teardown, at the latest when the
\* plugin has been torn down and started again; the only window the
\* configuration has is cache_expire_days.
C21_OldRecordsLeave ==
    out.op = "__init__"
    => \A u \in DOMAIN gender_cache : ElapsedSinceWrite(u) <= ExpireSeconds

\* C22 (as claimed): modify_llm_prompt takes an entry for expired, and makes
\* the lookup, exactly when more wall-clock time than the expiry time has
\* passed since the entry was written, also when the plugin was restarted in
\* between.
C22_ExpiresByElapsedTime ==
    out.op = "modify_llm_prompt"
    => \A r \in Reports : r.had => (r.called <=> r.elapsed > ExpireSeconds)

-----------------------------------------------------------------------------
(* Messages to everyone (specification SpecAtAll) *)

\* whether a message has an At component that addresses everyone
HasAtAll(msg) == \E i \in 1..Len(msg.ats) : msg.ats[i] \in {"0", "all", "quanti"}

\* C23: a step of modify_llm_prompt or analyze_nicknames on a message with
\* an @-all adds nothing to the system prompt and leaves gender_cache,
\* nickname_cache, user_alias_cache and processed_messages as they were.
C23_AtAllIsSkipped ==
    [][ \A msg \in {m \in AtAllMsgs : HasAtAll(m)} :
            ( \/ \E info \in AtAllInfos : analyze_nicknames(msg, info)
              \/ \E info \in AtAllInfos :
                     modify_llm_prompt(msg, [u \in Users |-> info], None, {}) )
            => /\ out'.skipped
               /\ out'.lines = <<>>
               /\ UNCHANGED <<gender_cache, nickname_cache, user_alias_cache,
                              processed_messages>> ]_vars

\* C23 witness: after nicknames and aliases were learned, analyze_nicknames
\* has returned at once from a message with an @-all.
C23_Witness ==
    /\ out.op = "analyze_nicknames"
    /\ out.skipped
    /\ out.why = "at_all"
    /\ processed_messages # {}
    /\ nickname_cache # EmptyDict
    /\ user_alias_cache # <<>>

-----------------------------------------------------------------------------
(* Repeated deliveries (specification SpecFlood) *)

\* C24 (as claimed): a step of analyze_nicknames on a message whose id it
\* has worked on before returns at once: it extracts nothing, asks the
\* platform nothing and leaves nickname_cache and user_alias_cache alone.
C24_ProcessedOnce ==
    [][ \A msg \in {m \in FloodMsgs : m.id \in handled} :
            (\E info \in AtAllInfos : analyze_nicknames(msg, info))
            => /\ out'.skipped
               /\ out'.items = <<>>
               /\ UNCHANGED <<nickname_cache, user_alias_cache>> ]_vars

-----------------------------------------------------------------------------
(* The alias map (specification SpecAlias) *)

\* C25: every alias recorded has at least 2 characters and is recorded once,
\* its list of user ids has no id twice and at most 10 ids, and a new id
\* added to a list of 10 takes the place of the oldest one.
C25_AliasListBounded ==
    /\ \A i \in 1..Len(user_alias_cache) :
           /\ Len(user_alias_cache[i].alias) >= 2
           /\ Len(user_alias_cache[i].ids) <= 10
           /\ \A j, k \in 1..Len(user_alias_cache[i].ids) :
                  user_alias_cache[i].ids[j] = user_alias_cache[i].ids[k] => j = k
           /\ \A j \in 1..Len(user_alias_cache) :
                  user_alias_cache[j].alias = user_alias_cache[i].alias => j = i
    /\ ( /\ out.op = "_update_user_alias"
         /\ Len(out.before) = 10
         /\ ~InSeq(out.user, out.before) )
       => AliasIds(user_alias_cache, out.alias) = Tail(out.before) \o <<out.user>>

\* C25 witness: the name Max was held by u1 to u10 and u11 has just been
\* added: the list is u2 to u11.
C25_Witness ==
    /\ out.op = "_update_user_alias"
    /\ out.before = SubSeq(AliasUsers, 1, 10)
    /\ out.user = "u11"
    /\ AliasIds(user_alias_cache, Max) = SubSeq(AliasUsers, 2, 11)

-----------------------------------------------------------------------------
(* The schedule of the daily scan (specification SpecDaily) *)

\* the date of the round of _daily_group_scan that has just ended
RoundDate == out.date[1]

\* C26 (as claimed): every round of _daily_group_scan computes a next scan:
\* today when the scan time is still ahead, else the following calendar day,
\* which after the last day of a month is the first day of the next; the
\* wait is positive and at most 24 hours.
C26_NextScanScheduled ==
    (out.op \in {"_daily_group_scan", "_scan_all_groups"} /\ out.date # None)
    => /\ out.scheduled # None
       /\ out.scheduled[1].wait > 0
       /\ out.scheduled[1].wait <= 24 * 60
       /\ out.scheduled[1].day =
              IF RoundDate.minute < 3 * 60 THEN RoundDate.day
              ELSE IF RoundDate.day < RoundDate.days_in_month THEN RoundDate.day + 1
              ELSE 1
       /\ out.scheduled[1].next_month =
              (RoundDate.minute >= 3 * 60 /\ RoundDate.day = RoundDate.days_in_month)

-----------------------------------------------------------------------------
(* The periodic save (specification SpecSave) *)

\* a handler has just run and left data in a cache in memory
CacheChanged ==
    /\ out.op \in {"modify_llm_prompt", "analyze_nicknames"}
    /\ ~out.skipped
    /\ \/ gender_cache # EmptyDict
       \/ nickname_cache # EmptyDict
       \/ user_alias_cache # <<>>

\* a round of the save task has just called _save_cache
SaveAttempted == out.op = "_periodic_cache_save"

\* C27: while the plugin runs the save task stays alive, failed saves
\* included, and every change of the caches in memory is followed by a later
\* attempt to save.
C27_SaveTaskSurvives ==
    /\ [](running => "_periodic_cache_save" \in tasks)
    /\ CacheChanged ~> SaveAttempted

\* a save has failed after the caches were filled, and the task is alive
C27_Witness ==
    /\ SaveAttempted
    /\ out.caught
    /\ "_periodic_cache_save" \in tasks
    /\ gender_cache # EmptyDict
    /\ disk["gender_cache"].kind = "corrupt"

-----------------------------------------------------------------------------
(* What the writers of gender_cache store (specification SpecStore) *)

StoreOps == {"modify_llm_prompt", "check_gender", "manual_scan", "_scan_all_groups"}

\* C28: every entry of gender_cache holds gender 'nan' or 'nv', and a lookup
\* by one of the four writers that yields no gender leaves the user's entry
\* as it was: absent, or the same gender, nickname and update_time.
C28_OnlyKnownGendersStored ==
    /\ \A u \in DOMAIN gender_cache : gender_cache[u].gender \in {"nan", "nv"}
    /\ out.op \in StoreOps
       => \A r \in Reports : (r.called /\ r.fetched = None) => r.kept

\* an expired entry met a lookup without a gender and is still there
C28_Witness ==
    /\ out.op = "modify_llm_prompt"
    /\ \E r \in Reports :
           /\ r.had /\ r.age > ExpireSeconds /\ r.called /\ r.fetched = None
           /\ r.user \in DOMAIN gender_cache
           /\ gender_cache[r.user].update_time = r.at - r.age

-----------------------------------------------------------------------------
(* Nickname lists under interleaving (specification SpecInterleave) *)

\* C29: in every state any interleaving of the handlers at their awaits can
\* reach, every nickname list has at most max_nicknames entries, holds no
\* text twice and is in descending order of priority.
C29_ListsSoundUnderInterleaving ==
    \A u \in DOMAIN nickname_cache :
        LET l == nickname_cache[u].nicknames
        IN  /\ Len(l) <= max_nicknames
            /\ \A i, j \in 1..Len(l) : i < j => (l[i][1] # l[j][1] /\ l[i][2] >= l[j][2])

\* both handlers are suspended at an await, and the list of the user they
\* work for is full, with two priorities
C29_Witness ==
    /\ inflight["modify_llm_prompt"] # None
    /\ inflight["analyze_nicknames"] # None
    /\ inflight["modify_llm_prompt"][1].msg.sender \in DOMAIN nickname_cache
    /\ LET l == nickname_cache[inflight["modify_llm_prompt"][1].msg.sender].nicknames
       IN  /\ Len(l) = max_nicknames
           /\ l[1][2] > l[Len(l)][2]

====
